---------------------------- MODULE Spec2Model ----------------------------
(***************************************************************************)
(* Model of scripts/post-check/06_generate_dak_api_hub.py: the DAK API     *)
(* documentation hub generator (QA reporter, schema classifier, OpenAPI    *)
(* wrapper synthesis, HTML injection, hub assembly and the main run).      *)
(*                                                                         *)
(* Text is modelled as a sequence of tokens.  A token is a piece of text   *)
(* that the program's patterns treat as a unit (an opening tag, a closing  *)
(* tag, a marker comment, a run of ordinary characters); Len gives the     *)
(* number of characters it stands for, so len() of a text is the sum of    *)
(* the Len of its tokens.                                                  *)
(***************************************************************************)
EXTENDS Integers, Sequences, FiniteSets, TLC

VARIABLES
    page,        \* content of the HTML file the hub is injected into
    pagePre,     \* its content before the latest injection call
    fragment,    \* the content handed to the injection call
    injRet,      \* what the latest call returned: "none", TRUE or FALSE
    injCalls,    \* number of injection calls made on the file
    pageExists,  \* whether the HTML file exists
    dirExists,   \* whether the scanned schema directory exists
    listing,     \* os.listdir of the schema directory: file names, in order
    schemas,     \* the buckets find_schema_files returned
    scanned,     \* whether find_schema_files has been called
    qa,          \* the QAReporter object
    qaFile,      \* what is at the path load_existing_ig_qa is given
    qaNow,       \* the clock behind datetime.now()
    qaLoadRet,   \* what load_existing_ig_qa returned (FALSE before the call)
    qaPc,        \* where the reporter's run stands: new, loaded, final, saved
    qaRun,       \* the number of the run the reporter belongs to
    qaResult,    \* the object the latest finalize_report returned
    pc,          \* where main stands
    outDir,      \* whether the output directory exists when main checks it
    fileContent,     \* fileContent[i]: what is in the schema file listing[i]
    pageReadable,    \* whether dak-api.html can be opened and decoded
    schemaDocs,     \* schema_docs of main
    enumerationDocs,    \* enumeration_docs of main
    openapiDocs,    \* openapi_docs of main
    wrappers,    \* the item specifications written under output/schemas
    catalogs,    \* the catalog documents written under output
    catalogWrappers, \* the catalog-level specifications written under output
    qaSavedAt,   \* where the QA report was saved: primary, backup, nowhere
    exitCode,    \* the exit status of the process, -1 while it runs
    exitAt,      \* the place main stopped at
    wrapperSpecs,    \* the documents of the item specifications written
    firstRun     \* what the run before this one found and wrote

injVars == <<page, pagePre, fragment, injRet, injCalls, pageExists>>
clsVars == <<dirExists, listing, schemas, scanned>>
qaVars == <<qa, qaFile, qaNow, qaLoadRet, qaPc, qaRun, qaResult>>
mainVars == <<pc, outDir, fileContent, pageReadable, schemaDocs, enumerationDocs,
              openapiDocs, wrappers, catalogs, catalogWrappers, qaSavedAt,
              exitCode, exitAt, wrapperSpecs, firstRun>>

vars == <<page, pagePre, fragment, injRet, injCalls, pageExists,
          dirExists, listing, schemas, scanned,
          qa, qaFile, qaNow, qaLoadRet, qaPc, qaRun, qaResult,
          pc, outDir, fileContent, pageReadable, schemaDocs, enumerationDocs,
          openapiDocs, wrappers, catalogs, catalogWrappers, qaSavedAt,
          exitCode, exitAt, wrapperSpecs, firstRun>>

---------------------------------------------------------------------------
(* Bounds of the model *)

\* longest landing page, in tokens
MaxDocLen == 4
\* injection calls made on one file
MaxInject == 2
\* most files in a scanned directory
MaxFiles == 3
\* the clock reading after which no more entries are logged
MaxClock == 2
\* most runs made one after the other over the same qa.json
MaxRuns == 2
\* most schema files in the output/schemas of a run of main
MaxMainFiles == 2
\* most files in the output/schemas of a run that looks for vocabulary files
MaxVocabularyFiles == 4
\* characters in one long run of ordinary text (longer than the smallest hub)
BulkLen == 3000

---------------------------------------------------------------------------
(* Text *)

\* '<div id="dak-api-content-placeholder">', the shortest opening tag that
\* placeholder_pattern matches
PlaceholderOpenLen == 38
\* "<!-- DAK_API_CONTENT -->"
CommentMarkerLen == 24
\* the usage-guidance block and style sheet that ends every hub fragment
UsageLen == 2327
\* growth above which an injection counts as successful
MinGrowth == 100

\* Tokens of a landing page.
\* BULK is one long run of ordinary text.
DocToks == {"PH_OPEN", "DIV_OPEN", "DIV_CLOSE", "LEGACY", "BULK"}

\* Tokens of text taken from a schema document (a title, a description):
\* one ordinary character, a backslash followed by n, a backslash followed
\* by a letter that is no escape of a regular-expression replacement
\* template (such as \d).
TextToks == {"t", "ESC_NL", "ESC_BAD"}

\* Number of characters of a token.  The markup tokens of the hub fragment
\* count the characters of the markup alone; the names, links and titles
\* placed in it are tokens of their own.
TokLen(tok) ==
    CASE tok = "PH_OPEN" -> PlaceholderOpenLen
      [] tok = "DIV_OPEN" -> 5
      [] tok = "DIV_CLOSE" -> 6
      [] tok = "LEGACY" -> CommentMarkerLen
      [] tok = "BULK" -> BulkLen
      [] tok = "USAGE" -> UsageLen
      [] tok \in {"t", "NL", "a", "b", "c"} -> 1
      [] tok \in {"ESC_NL", "ESC_BAD"} -> 2
      \* pieces of file names
      [] tok \in {"ValueSet-", "ValueSets"} -> 9
      [] tok = "CodeSystem-" -> 11
      [] tok = "LogicalModels" -> 13
      [] tok \in {".schema.json", "-enumeration"} -> 12
      [] tok = ".openapi.json" -> 13
      [] tok = ".displays.json" -> 14
      [] tok = ".jsonld" -> 7
      [] tok = ".html" -> 5
      [] tok = ".md" -> 3
      [] tok = "schemas/" -> 8
      \* markup of the hub fragment
      [] tok \in {"HUB_OPEN", "GRID", "CARD", "P_API"} -> 25
      [] tok = "ENUM_H3" -> 34
      [] tok = "ENUM_P" -> 92
      [] tok \in {"ENUM_DIV", "LEGACY_H3"} -> 35
      [] tok = "EP_CARD" -> 27
      [] tok = "H4A" -> 24
      [] tok = "P" -> 7
      [] tok = "EP_LIST" -> 56
      [] tok = "UL" -> 4
      [] tok = "UL_CLOSE" -> 5
      [] tok = "LI_SCHEMA" -> 55
      [] tok = "LI_JSONLD" -> 57
      [] tok = "VS_H3" -> 39
      [] tok \in {"VS_P", "A_LM_SCHEMA"} -> 107
      [] tok = "LM_H3" -> 44
      [] tok = "LM_P" -> 114
      [] tok = "LINKS" -> 26
      [] tok = "A_FHIR" -> 87
      [] tok \in {"A_SCHEMA", "A_SPEC"} -> 82
      [] tok = "A_DISPLAYS" -> 73
      [] tok \in {"A_JSONLD", "A_OPENAPI"} -> 77
      [] tok = "API_H3" -> 30
      [] tok = "API_P" -> 76
      [] tok = "H4_ENDPOINTS" -> 19
      [] tok = "ENUMCARD_VS" -> 64
      [] tok = "P_VS_LIST" -> 54
      [] tok = "A_VS_SCHEMA" -> 103
      [] tok = "A_VS_OPENAPI" -> 111
      [] tok = "ENUMCARD_LM" -> 68
      [] tok = "P_LM_LIST" -> 59
      [] tok = "A_LM_OPENAPI" -> 115
      [] tok = "H4" -> 9
      [] tok = "A_DOC" -> 79
      [] tok = "LEGACY_DIV" -> 38
      [] tok = "ENUM_VS_DESC" -> 45
      [] tok = "ENUM_LM_DESC" -> 50
      [] tok = " API" -> 4
      [] tok = "OAS_DESC" -> 26
      [] OTHER -> 1

\* len(s): the characters of s[lo..hi], summed by halves
RECURSIVE StrLenRange(_, _, _)
StrLenRange(s, lo, hi) ==
    IF lo > hi THEN 0
    ELSE IF lo = hi THEN TokLen(s[lo])
    ELSE LET mid == (lo + hi) \div 2
         IN StrLenRange(s, lo, mid) + StrLenRange(s, mid + 1, hi)

StrLen(s) == StrLenRange(s, 1, Len(s))

\* tok in s
Contains(s, tok) == \E i \in 1..Len(s) : s[i] = tok

\* s.replace(tok, ""): every occurrence of the token removed
Without(s, tok) == SelectSeq(s, LAMBDA x : x # tok)

\* the pieces ss[lo..hi] put one after another, with sep between them
RECURSIVE JoinRange(_, _, _, _)
JoinRange(ss, sep, lo, hi) ==
    IF lo > hi THEN <<>>
    ELSE IF lo = hi THEN ss[lo]
    ELSE LET mid == (lo + hi) \div 2
         IN JoinRange(ss, sep, lo, mid) \o sep \o JoinRange(ss, sep, mid + 1, hi)

\* the pieces of ss put one after another
Flatten(ss) == JoinRange(ss, <<>>, 1, Len(ss))

\* "\n".join(html)
JoinNL(html) == JoinRange(html, <<"NL">>, 1, Len(html))

\* s.replace(old, new) for a one-token old: every occurrence replaced
StrReplace(s, old, new) ==
    Flatten([i \in 1..Len(s) |-> IF s[i] = old THEN new ELSE <<s[i]>>])

---------------------------------------------------------------------------
(* HTMLProcessor *)

\* Index of the first "</div>" after position i of html, 0 when there is none.
FirstCloseAfter(html, i) ==
    LET js == {j \in (i + 1)..Len(html) : html[j] = "DIV_CLOSE"}
    IN IF js = {} THEN 0 ELSE CHOOSE j \in js : \A k \in js : j <= k

\* re.search(placeholder_pattern, html, re.DOTALL) from position `from`: the
\* start of the leftmost match, 0 when there is none.  The pattern is the
\* placeholder's opening tag, then as few characters as possible, then
\* "</div>".
PlaceholderSearch(html, from) ==
    LET is == {i \in from..Len(html) :
                  html[i] = "PH_OPEN" /\ FirstCloseAfter(html, i) # 0}
    IN IF is = {} THEN 0 ELSE CHOOSE i \in is : \A k \in is : i <= k

\* The replacement template of re.sub, expanded: a backslash followed by n
\* becomes a newline.
ExpandTemplate(content) ==
    [i \in 1..Len(content) |->
        IF content[i] = "ESC_NL" THEN "NL" ELSE content[i]]

\* Whether re.sub accepts the replacement template: a backslash followed by
\* an ASCII letter that is no known escape raises re.error("bad escape").
TemplateOk(content) == ~Contains(content, "ESC_BAD")

\* re.sub(placeholder_pattern, content, html, flags=re.DOTALL), from position
\* `from`: every match, left to right and not overlapping, replaced by the
\* expanded template.
RECURSIVE PlaceholderSub(_, _, _)
PlaceholderSub(html, content, from) ==
    LET i == PlaceholderSearch(html, from) IN
    IF i = 0 THEN SubSeq(html, from, Len(html))
    ELSE SubSeq(html, from, i - 1) \o ExpandTemplate(content)
           \o PlaceholderSub(html, content, FirstCloseAfter(html, i) + 1)

\* Whether the call writes the file: a marker is found and nothing raises
\* before the write.
InjectWrites(exists, html, content) ==
    /\ exists
    /\ IF PlaceholderSearch(html, 1) # 0 THEN TemplateOk(content)
       ELSE Contains(html, "LEGACY")

\* a substitution that keeps the marker: the content is put in front of the
\* document and the marker stays where it was
InjectNewHtml_keepingMarker(html, content) == content \o html

\* new_html of inject_content_at_comment_marker
InjectNewHtml(html, content) ==
    IF PlaceholderSearch(html, 1) = 0
    THEN StrReplace(html, "LEGACY", content)
    ELSE PlaceholderSub(html, content, 1)

\* the growth check left out: any written substitution counts as a success
InjectGrewEnough_unchecked(size_increase) == TRUE

\* size_increase > 100
InjectGrewEnough(size_increase) == size_increase > MinGrowth

\* a call that guesses when it finds no marker: the content is put at the
\* end of the document
inject_content_guessing(exists, html, content) ==
    IF ~exists THEN [ret |-> FALSE, html |-> html]
    ELSE IF ~InjectWrites(exists, html, content)
              /\ PlaceholderSearch(html, 1) = 0
    THEN [ret |-> InjectGrewEnough(StrLen(content)), html |-> html \o content]
    ELSE IF ~InjectWrites(exists, html, content)
    THEN [ret |-> FALSE, html |-> html]
    ELSE LET new_html == InjectNewHtml(html, content) IN
         [ret |-> InjectGrewEnough(StrLen(new_html) - StrLen(html)),
          html |-> new_html]

\* a call that writes the file only when the substitution grew it enough
inject_content_rollingBack(exists, html, content) ==
    IF ~InjectWrites(exists, html, content)
    THEN [ret |-> FALSE, html |-> html]
    ELSE LET new_html == InjectNewHtml(html, content)
             grew == InjectGrewEnough(StrLen(new_html) - StrLen(html))
         IN [ret |-> grew, html |-> IF grew THEN new_html ELSE html]

\* inject_content_at_comment_marker(html_file_path, content): the value it
\* returns and the content of the file after the call.
inject_content_at_comment_marker(exists, html, content) ==
    IF ~InjectWrites(exists, html, content)
    THEN [ret |-> FALSE, html |-> html]
    ELSE LET new_html == InjectNewHtml(html, content) IN
         [ret |-> InjectGrewEnough(StrLen(new_html) - StrLen(html)),
          html |-> new_html]

---------------------------------------------------------------------------
(* DAKApiHubGenerator.generate_hub_html_content *)

\* A text is a sequence of tokens; an absent or empty value is <<>>, which
\* is what the truth tests of s.get("...") tell apart.
Opt(cond, elems) == IF cond THEN elems ELSE <<>>

\* '</div></div>'
Close2 == <<"DIV_CLOSE", "DIV_CLOSE">>

\* s["schema_file"].replace("schemas/", "").replace(".schema.json", "")
SchemaBaseName(schema_file) ==
    Without(Without(schema_file, "schemas/"), ".schema.json")

\* the <li> lines of one entry in the ValueSets enumeration card
ValuesetListItems(s) ==
    << <<"LI_SCHEMA">> \o s.schema_file \o SchemaBaseName(s.schema_file)
           \o s.title >>
    \o Opt(s.jsonld_file # <<>>,
           << <<"LI_JSONLD">> \o s.jsonld_file
                  \o Without(Without(s.jsonld_file, "schemas/"), ".jsonld")
                  \o s.title >>)

\* the <li> line of one entry in the LogicalModels enumeration card
LogicalModelListItems(s) ==
    << <<"LI_SCHEMA">> \o s.schema_file \o SchemaBaseName(s.schema_file)
           \o s.title >>

\* one card of the "API Enumeration Endpoints" section
EnumerationEndpointCard(enum_doc, schema_docs) ==
    LET items ==
            IF enum_doc.type = "enumeration-valueset"
            THEN Flatten([i \in 1..Len(schema_docs.valueset) |->
                             ValuesetListItems(schema_docs.valueset[i])])
            ELSE Flatten([i \in 1..Len(schema_docs.logical_model) |->
                             LogicalModelListItems(schema_docs.logical_model[i])])
    IN Opt(enum_doc.type \in {"enumeration-valueset", "enumeration-logicalmodel"},
           << <<"EP_CARD">>,
              <<"H4A">> \o enum_doc.html_file \o enum_doc.title,
              <<"P">> \o enum_doc.description,
              <<"EP_LIST">>,
              <<"UL">> >>
           \o items
           \o << <<"UL_CLOSE">> \o Close2 >>)

\* one card of the "ValueSet Schemas" grid
ValuesetCard(s) ==
    << <<"CARD">>,
       <<"H4A">> \o s.html_file \o s.title,
       <<"P">> \o s.description,
       <<"LINKS">>,
       <<"A_FHIR">> \o s.html_file,
       <<"A_SCHEMA">> \o s.schema_file >>
    \o Opt(s.displays_file # <<>>, << <<"A_DISPLAYS">> \o s.displays_file >>)
    \o Opt(s.jsonld_file # <<>>, << <<"A_JSONLD">> \o s.jsonld_file >>)
    \o Opt(s.openapi_file # <<>>, << <<"A_OPENAPI">> \o s.openapi_file >>)
    \o << Close2 >>

\* one card of the "Logical Model Schemas" grid
LogicalModelCard(s) ==
    << <<"CARD">>,
       <<"H4A">> \o s.html_file \o s.title,
       <<"P">> \o s.description,
       <<"LINKS">>,
       <<"A_FHIR">> \o s.html_file,
       <<"A_SCHEMA">> \o s.schema_file >>
    \o Opt(s.displays_file # <<>>, << <<"A_DISPLAYS">> \o s.displays_file >>)
    \o Opt(s.openapi_file # <<>>, << <<"A_OPENAPI">> \o s.openapi_file >>)
    \o << Close2 >>

\* one "<name> Endpoints" card of the "OpenAPI Documentation" grid
SchemaEndpointsCard(s, withJsonld) ==
    << <<"CARD">>,
       <<"H4_ENDPOINTS">> \o SchemaBaseName(s.schema_file),
       <<"P_API">> \o s.title,
       <<"LINKS">>,
       <<"A_SCHEMA">> \o s.schema_file >>
    \o Opt(withJsonld /\ s.jsonld_file # <<>>,
           << <<"A_JSONLD">> \o s.jsonld_file >>)
    \o Opt(s.openapi_file # <<>>, << <<"A_OPENAPI">> \o s.openapi_file >>)
    \o << Close2 >>

\* the enumeration card(s) of one enumeration document in that grid
EnumerationApiCard(e) ==
    Opt(e.type = "enumeration-valueset",
        << <<"ENUMCARD_VS">>, <<"P_VS_LIST">>, <<"LINKS">>,
           <<"A_VS_SCHEMA">>, <<"A_VS_OPENAPI">>, Close2 >>)
    \o Opt(e.type = "enumeration-logicalmodel",
        << <<"ENUMCARD_LM">>, <<"P_LM_LIST">>, <<"LINKS">>,
           <<"A_LM_SCHEMA">>, <<"A_LM_OPENAPI">>, Close2 >>)

\* the card of one specification file in that grid
OpenApiFileCard(a) ==
    << <<"CARD">>,
       <<"H4">> \o a.title,
       <<"P">> \o a.description,
       <<"LINKS">> >>
    \o Opt(a.html_file # <<>>, << <<"A_DOC">> \o a.html_file >>)
    \o << <<"A_SPEC">> \o a.file_path, Close2 >>

\* the list html of generate_hub_html_content, one element per append
HubHtmlElements(schema_docs, openapi_docs, enumeration_docs, existing) ==
    << <<"HUB_OPEN">> >>
    \o Opt(enumeration_docs # <<>>,
           << <<"ENUM_H3">>, <<"ENUM_P">>, <<"ENUM_DIV">> >>
           \o Flatten([i \in 1..Len(enumeration_docs) |->
                 EnumerationEndpointCard(enumeration_docs[i], schema_docs)])
           \o << <<"DIV_CLOSE">> >>)
    \o Opt(schema_docs.valueset # <<>>,
           << <<"VS_H3">>, <<"VS_P">>, <<"GRID">> >>
           \o Flatten([i \in 1..Len(schema_docs.valueset) |->
                 ValuesetCard(schema_docs.valueset[i])])
           \o << <<"DIV_CLOSE">> >>)
    \o Opt(schema_docs.logical_model # <<>>,
           << <<"LM_H3">>, <<"LM_P">>, <<"GRID">> >>
           \o Flatten([i \in 1..Len(schema_docs.logical_model) |->
                 LogicalModelCard(schema_docs.logical_model[i])])
           \o << <<"DIV_CLOSE">> >>)
    \o Opt(openapi_docs # <<>> \/ schema_docs.valueset # <<>>
               \/ schema_docs.logical_model # <<>>,
           << <<"API_H3">>, <<"API_P">>, <<"GRID">> >>
           \o Flatten([i \in 1..Len(schema_docs.valueset) |->
                 SchemaEndpointsCard(schema_docs.valueset[i], TRUE)])
           \o Flatten([i \in 1..Len(schema_docs.logical_model) |->
                 SchemaEndpointsCard(schema_docs.logical_model[i], FALSE)])
           \o Flatten([i \in 1..Len(enumeration_docs) |->
                 EnumerationApiCard(enumeration_docs[i])])
           \o Flatten([i \in 1..Len(openapi_docs) |->
                 OpenApiFileCard(openapi_docs[i])])
           \o << <<"DIV_CLOSE">> >>)
    \o Opt(existing # <<>>,
           << <<"LEGACY_H3">>, <<"LEGACY_DIV">>, existing, <<"DIV_CLOSE">> >>)
    \o << <<"USAGE">>, <<"DIV_CLOSE">> >>

\* generate_hub_html_content(...): "\n".join(html)
generate_hub_html_content(schema_docs, openapi_docs, enumeration_docs, existing) ==
    JoinNL(HubHtmlElements(schema_docs, openapi_docs, enumeration_docs, existing))

---------------------------------------------------------------------------
(* QAReporter *)

\* A dict is a function on its keys; {} and None given as `details` are <<>>,
\* which is what the truth test `if details:` tells from a filled dict.
EmptyDict == <<>>

\* d.get(k, default)
Get(d, k, default) == IF k \in DOMAIN d THEN d[k] ELSE default

\* d[k] = v
Put(d, k, v) == [x \in DOMAIN d \cup {k} |-> IF x = k THEN v ELSE d[x]]

\* What a JSON file parses to: kind "object" (val: a dict), kind "list"
\* (val: a list) ; kind "none" stands for ig_publisher_qa = None.
JsonNone == [kind |-> "none", val |-> <<>>]

\* the truth test of `if self.ig_publisher_qa:`
Truthy(j) == j.kind # "none" /\ j.val # <<>>

\* QAReporter.__init__
NewReporter(phase, now) ==
    [report |->
        [phase |-> phase,
         timestamp |-> now,
         status |-> "running",
         summary |-> EmptyDict,
         details |->
            [successes |-> <<>>, warnings |-> <<>>, errors |-> <<>>,
             files_processed |-> <<>>, files_expected |-> <<>>,
             files_missing |-> <<>>]],
     ig_publisher_qa |-> JsonNone,
     stored |-> <<>>]

\* the entry of add_success, add_warning and add_error
LogEntry(message, now, details) ==
    IF details # EmptyDict
    THEN [message |-> message, timestamp |-> now, details |-> details]
    ELSE [message |-> message, timestamp |-> now]

add_success(q, message, details, now) ==
    [q EXCEPT !.report.details.successes =
        Append(@, LogEntry(message, now, details))]

\* a log that takes its newest entry first
add_warning_newestFirst(q, message, details, now) ==
    [q EXCEPT !.report.details.warnings =
        <<LogEntry(message, now, details)>> \o @]

add_warning(q, message, details, now) ==
    [q EXCEPT !.report.details.warnings =
        Append(@, LogEntry(message, now, details))]

add_error(q, message, details, now) ==
    [q EXCEPT !.report.details.errors =
        Append(@, LogEntry(message, now, details))]

add_file_processed(q, file_path, status, details, now) ==
    [q EXCEPT !.report.details.files_processed =
        Append(@, IF details # EmptyDict
                  THEN [file |-> file_path, status |-> status,
                        timestamp |-> now, details |-> details]
                  ELSE [file |-> file_path, status |-> status,
                        timestamp |-> now])]

add_file_expected(q, file_path, found) ==
    [q EXCEPT !.report.details.files_expected = Append(@, file_path),
              !.report.details.files_missing =
                  IF found THEN @ ELSE Append(@, file_path)]

\* load_existing_ig_qa(qa_file_path): the reporter afterwards.  The file is
\* absent, or cannot be read or parsed, or parses to a JSON value.
load_existing_ig_qa(q, file) ==
    IF file.kind \in {"absent", "unreadable"} THEN q
    ELSE [q EXCEPT !.ig_publisher_qa = file]

\* ... and what it returns
load_existing_ig_qa_ret(file) == file.kind \notin {"absent", "unreadable"}

\* the loops of merge_preprocessing_report over one list of the report's
\* details: entries[1..n] folded into the reporter's own log
RECURSIVE FoldEntries(_, _, _, _, _, _)
FoldEntries(q, kind, component_name, entries, n, now) ==
    IF n = 0 THEN q
    ELSE LET before == FoldEntries(q, kind, component_name, entries, n - 1, now)
             e == entries[n]
         IN CASE kind = "successes" ->
                   add_success(before, <<"[", component_name, "] ">> \o Get(e, "message", <<>>),
                               Get(e, "details", EmptyDict), now)
              [] kind = "warnings" ->
                   add_warning(before, <<"[", component_name, "] ">> \o Get(e, "message", <<>>),
                               Get(e, "details", EmptyDict), now)
              [] kind = "errors" ->
                   add_error(before, <<"[", component_name, "] ">> \o Get(e, "message", <<>>),
                             Get(e, "details", EmptyDict), now)
              [] OTHER ->
                   add_file_processed(before,
                       <<"[", component_name, "] ">> \o Get(e, "file", <<>>),
                       Get(e, "status", "unknown"), Get(e, "details", EmptyDict), now)

\* merge_preprocessing_report(preprocessing_report)
merge_preprocessing_report(q, rep, now) ==
    LET q0 == [q EXCEPT !.stored = Append(@, rep)]
        component_name == Get(rep, "component", Get(rep, "phase", "Unknown"))
        details == Get(rep, "details", EmptyDict)
        l(k) == Get(details, k, <<>>)
        q1 == FoldEntries(q0, "successes", component_name, l("successes"), Len(l("successes")), now)
        q2 == FoldEntries(q1, "warnings", component_name, l("warnings"), Len(l("warnings")), now)
        q3 == FoldEntries(q2, "errors", component_name, l("errors"), Len(l("errors")), now)
    IN FoldEntries(q3, "files_processed", component_name,
                   l("files_processed"), Len(l("files_processed")), now)

\* f"component_{i}"
ComponentIndexName(i) ==
    <<"component_0", "component_1", "component_2", "component_3",
      "component_4", "component_5", "component_6", "component_7">>[i + 1]

\* the key merge_with_ig_publisher_qa stores the i-th received report under
\* (i counted from 0)
StoredName(stored, i) ==
    Get(stored[i + 1], "component",
        Get(stored[i + 1], "phase", ComponentIndexName(i)))

\* a map in which the first report stored under a key stays
PreprocessingReports_firstWins(stored) ==
    LET names == {StoredName(stored, i) : i \in 0..(Len(stored) - 1)}
        first(n) == CHOOSE i \in 0..(Len(stored) - 1) :
                       /\ StoredName(stored, i) = n
                       /\ \A j \in 0..(Len(stored) - 1) :
                             StoredName(stored, j) = n => i <= j
    IN [n \in names |-> stored[first(n) + 1]]

\* the dict preprocessing_reports: a later report replaces an earlier one
\* stored under the same key
PreprocessingReports(stored) ==
    LET names == {StoredName(stored, i) : i \in 0..(Len(stored) - 1)}
        last(n) == CHOOSE i \in 0..(Len(stored) - 1) :
                      /\ StoredName(stored, i) = n
                      /\ \A j \in 0..(Len(stored) - 1) :
                            StoredName(stored, j) = n => j <= i
    IN [n \in names |-> stored[last(n) + 1]]

\* a sub-tree whose summary counts the entries of the stored reports only
DakApiProcessing_storedOnly(q) ==
    [preprocessing_reports |-> PreprocessingReports(q.stored),
     postprocessing |-> q.report,
     summary |->
        [total_dak_api_successes |-> q.report.summary.total_successes,
         total_dak_api_warnings |-> Len(q.stored),
         total_dak_api_errors |-> q.report.summary.total_errors,
         dak_api_completion_timestamp |-> q.report.summary.completion_timestamp]]

\* the sub-tree stored under dak_api_processing
DakApiProcessing(q) ==
    [preprocessing_reports |-> PreprocessingReports(q.stored),
     postprocessing |-> q.report,
     summary |->
        [total_dak_api_successes |-> q.report.summary.total_successes,
         total_dak_api_warnings |-> q.report.summary.total_warnings,
         total_dak_api_errors |-> q.report.summary.total_errors,
         dak_api_completion_timestamp |-> q.report.summary.completion_timestamp]]

\* dict(l) of a list made of [key, value] pairs; a later pair wins
DictOfPairs(l) ==
    LET last(k) == CHOOSE i \in 1..Len(l) :
                      /\ l[i].k = k
                      /\ \A j \in 1..Len(l) : l[j].k = k => j <= i
    IN [k \in {l[i].k : i \in 1..Len(l)} |-> l[last(k)].v]

\* whether dict(self.ig_publisher_qa) raises: it does for a list with an item
\* that is no pair
DictRaises(j) ==
    j.kind = "list" /\ \E i \in 1..Len(j.val) : ~j.val[i].pair

\* dict(self.ig_publisher_qa)
DictOf(j) == IF j.kind = "list" THEN DictOfPairs(j.val) ELSE j.val

\* a merge that leaves the run's sub-tree out
merge_with_ig_publisher_qa_bare(q) ==
    IF DictRaises(q.ig_publisher_qa) THEN q.report
    ELSE DictOf(q.ig_publisher_qa)

\* merge_with_ig_publisher_qa(); the except branch returns the reporter's
\* own report
merge_with_ig_publisher_qa(q) ==
    IF DictRaises(q.ig_publisher_qa) THEN q.report
    ELSE Put(DictOf(q.ig_publisher_qa), "dak_api_processing",
             DakApiProcessing(q))

\* a finalize_report that fills in the summary and leaves the status alone
Finalized_statusKept(q, status, now) ==
    [q EXCEPT !.report.summary =
                 [total_successes |-> Len(q.report.details.successes),
                  total_warnings |-> Len(q.report.details.warnings),
                  total_errors |-> Len(q.report.details.errors),
                  files_processed_count |-> Len(q.report.details.files_processed),
                  files_expected_count |-> Len(q.report.details.files_expected),
                  files_missing_count |-> Len(q.report.details.files_missing),
                  completion_timestamp |-> now]]

\* a finalize_report whose merge works on the loaded external report itself
\* and not on a copy of it
Finalized_mergingInPlace(q, status, now) ==
    LET f == [Finalized_statusKept(q, status, now) EXCEPT !.report.status = status]
    IN IF Truthy(f.ig_publisher_qa) /\ ~DictRaises(f.ig_publisher_qa)
       THEN [f EXCEPT !.ig_publisher_qa = [kind |-> "object", val |-> merge_with_ig_publisher_qa(f)]]
       ELSE f

\* the reporter after finalize_report(status)
Finalized(q, status, now) ==
    [q EXCEPT !.report.status = status,
              !.report.summary =
                 [total_successes |-> Len(q.report.details.successes),
                  total_warnings |-> Len(q.report.details.warnings),
                  total_errors |-> Len(q.report.details.errors),
                  files_processed_count |-> Len(q.report.details.files_processed),
                  files_expected_count |-> Len(q.report.details.files_expected),
                  files_missing_count |-> Len(q.report.details.files_missing),
                  completion_timestamp |-> now]]

\* what finalize_report(status) returns
finalize_report(q, status, now) ==
    LET f == Finalized(q, status, now) IN
    IF Truthy(f.ig_publisher_qa) THEN merge_with_ig_publisher_qa(f)
    ELSE f.report

---------------------------------------------------------------------------
(* SchemaDetector *)

\* A file name is a text whose tokens are the pieces the program's tests
\* look at: a prefix, a stem, a suffix.
StartsWith(name, tok) == Len(name) > 0 /\ name[1] = tok
EndsWith(name, tok) == Len(name) > 0 /\ name[Len(name)] = tok

ValueSetsCatalogName == <<"ValueSets", ".schema.json">>
LogicalModelsCatalogName == <<"LogicalModels", ".schema.json">>

NoSchemas == [valueset |-> <<>>, logical_model |-> <<>>, other |-> <<>>]

\* a suffix test that takes every .json file of the directory
IsSchemaFile_anyJson(file) ==
    EndsWith(file, ".schema.json") \/ EndsWith(file, ".openapi.json")

\* file.endswith(".schema.json")
IsSchemaFile(file) == EndsWith(file, ".schema.json")

\* The bucket find_schema_files appends a suffix-matching file to.
BucketOf(file) ==
    IF StartsWith(file, "ValueSet-") THEN "valueset"
    ELSE IF file \in {ValueSetsCatalogName, LogicalModelsCatalogName}
    THEN (IF file = ValueSetsCatalogName THEN "valueset" ELSE "logical_model")
    ELSE IF ~StartsWith(file, "ValueSet-") /\ ~StartsWith(file, "CodeSystem-")
    THEN "logical_model"
    ELSE "other"

\* the loop of find_schema_files over all_files[1..n]
RECURSIVE ScanSchemas(_, _)
ScanSchemas(all_files, n) ==
    IF n = 0 THEN NoSchemas
    ELSE LET before == ScanSchemas(all_files, n - 1)
             file == all_files[n]
         IN IF ~IsSchemaFile(file) THEN before
            ELSE [before EXCEPT ![BucketOf(file)] = Append(@, file)]

\* find_schema_files(schema_dir); a path is named by its file name
find_schema_files(exists, all_files) ==
    IF ~exists THEN NoSchemas ELSE ScanSchemas(all_files, Len(all_files))

---------------------------------------------------------------------------
(* Injection of a fragment into a landing page *)

\* every text of at most n tokens over toks
SeqsUpTo(toks, n) == UNION {[1..k -> toks] : k \in 0..n}

\* a schema_docs entry of main for the item ValueSet-a / b whose title and
\* description are the text `text`
SampleEntry(kind, text) ==
    LET name == IF kind = "valueset" THEN <<"ValueSet-", "a">> ELSE <<"b">> IN
    [title |-> text, description |-> text,
     html_file |-> name \o <<".html">>,
     schema_file |-> <<"schemas/">> \o name \o <<".schema.json">>,
     displays_file |-> <<>>,
     jsonld_file |-> <<>>,
     openapi_file |-> <<"schemas/">> \o name \o <<".openapi.json">>]

\* the enumeration_docs entries main builds
ValuesetEnumDoc ==
    [title |-> <<"ValueSets", ".schema.json">>,
     description |-> <<"ENUM_VS_DESC">>,
     html_file |-> <<"ValueSets", "-enumeration", ".html">>,
     type |-> "enumeration-valueset"]

LogicalModelEnumDoc ==
    [title |-> <<"LogicalModels", ".schema.json">>,
     description |-> <<"ENUM_LM_DESC">>,
     html_file |-> <<"LogicalModels", "-enumeration", ".html">>,
     type |-> "enumeration-logicalmodel"]

NoDocs == [valueset |-> <<>>, logical_model |-> <<>>]

\* hub fragments of runs with no item, one kind-A item (for each kind of
\* title text) and one kind-B item
HubFragments ==
    {generate_hub_html_content(NoDocs, <<>>, <<>>, <<>>)}
    \cup {generate_hub_html_content(
              [NoDocs EXCEPT !.valueset = <<SampleEntry("valueset", <<x>>)>>],
              <<>>, <<ValuesetEnumDoc>>, <<>>) : x \in TextToks}
    \cup {generate_hub_html_content(
              [NoDocs EXCEPT !.logical_model = <<SampleEntry("logical_model", <<"t">>)>>],
              <<>>, <<LogicalModelEnumDoc>>, <<"t">>)}

\* other contents a caller may hand to the injection call
RawFragments == {<<>>, <<"t">>, <<"BULK">>, <<"t", "ESC_BAD">>}

InjStart ==
    /\ pageExists \in BOOLEAN
    /\ page \in IF pageExists THEN SeqsUpTo(DocToks, MaxDocLen) ELSE {<<>>}
    /\ pagePre = page
    /\ fragment \in HubFragments \cup RawFragments
    /\ injRet = "none"
    /\ injCalls = 0

\* one call of inject_content_at_comment_marker on the file
Inject ==
    /\ injCalls < MaxInject
    /\ LET r == inject_content_at_comment_marker(pageExists, page, fragment) IN
        /\ page' = r.html
        /\ injRet' = r.ret
    /\ pagePre' = page
    /\ injCalls' = injCalls + 1
    /\ UNCHANGED <<fragment, pageExists>>

---------------------------------------------------------------------------
(* Claims about the injection into the landing page *)

\* The page holds a placeholder element: the opening tag of the div with id
\* dak-api-content-placeholder and a closing div tag somewhere after it.
HasPlaceholderElement(html) ==
    \E i \in 1..Len(html) :
        /\ html[i] = "PH_OPEN"
        /\ \E j \in (i + 1)..Len(html) : html[j] = "DIV_CLOSE"

HasLegacyMarker(html) == \E i \in 1..Len(html) : html[i] = "LEGACY"

\* characters the latest call added to the file
Growth == StrLen(page) - StrLen(pagePre)

\* C7: when the file holds neither the placeholder element nor the legacy
\* marker, the call returns false and the file's content after the call is
\* its content before the call, whatever the fragment.
C7_NoMarkerFailsAndKeepsFile ==
    (injCalls > 0 /\ ~HasPlaceholderElement(pagePre) /\ ~HasLegacyMarker(pagePre))
        => (injRet = FALSE /\ page = pagePre)

C7_Witness ==
    /\ injCalls = 1
    /\ pageExists
    /\ pagePre = <<"DIV_OPEN", "BULK", "DIV_CLOSE">>
    /\ fragment \in HubFragments
    /\ injRet = FALSE

\* C8 as stated: for every page holding the placeholder element and every
\* hub fragment, the call returns true and the document has grown by more
\* than the minimal-growth threshold.  It is stated here for the fragments
\* that hold no backslash, which is where the statement is at its strongest.
C8_AlwaysGrowsAndSucceeds ==
    (/\ injCalls > 0
     /\ HasPlaceholderElement(pagePre)
     /\ fragment \in HubFragments
     /\ \A i \in 1..Len(fragment) : fragment[i] \notin {"ESC_NL", "ESC_BAD"})
        => (injRet = TRUE /\ Growth > MinGrowth)

\* C8 as amended: for such a page and fragment the call returns true exactly
\* when the document has grown by more than the threshold, and it has
\* whenever the fragment holds no backslash and the whole page was more than
\* the threshold shorter than the fragment.
C8_SucceedsIffGrown ==
    (injCalls > 0 /\ HasPlaceholderElement(pagePre) /\ fragment \in HubFragments)
        => /\ (injRet = TRUE) <=> (Growth > MinGrowth)
           /\ (/\ \A i \in 1..Len(fragment) : fragment[i] \notin {"ESC_NL", "ESC_BAD"}
               /\ StrLen(pagePre) + MinGrowth < StrLen(fragment))
                  => injRet = TRUE

C8_Witness ==
    /\ injCalls = 1
    /\ HasPlaceholderElement(pagePre)
    /\ fragment \in HubFragments
    /\ injRet = TRUE
    /\ Growth > MinGrowth

\* opening tags minus closing tags among html[i..j]
RECURSIVE Depth(_, _, _)
Depth(html, i, j) ==
    IF i > j THEN 0
    ELSE Depth(html, i, j - 1)
           + (IF html[j] \in {"PH_OPEN", "DIV_OPEN"} THEN 1
              ELSE IF html[j] = "DIV_CLOSE" THEN -1 ELSE 0)

\* the closing tag of the element opened at i: the first position where the
\* tags opened from i on are all closed; 0 when the element is never closed
OwnClose(html, i) ==
    LET js == {j \in (i + 1)..Len(html) : Depth(html, i, j) = 0}
    IN IF js = {} THEN 0 ELSE CHOOSE j \in js : \A k \in js : j <= k

\* C9: when the page holds the placeholder container (here: exactly one,
\* closed by its own closing tag) the call replaces it from its opening tag
\* through its own closing tag, nested elements included: the page afterwards
\* is the text before the container, the fragment, and the text after the
\* container, and holds no placeholder opening tag.
C9_ReplacesFullExtent ==
    \A i \in 1..Len(pagePre) :
        (/\ injCalls = 1
         /\ pagePre[i] = "PH_OPEN"
         /\ \A k \in 1..Len(pagePre) : pagePre[k] = "PH_OPEN" => k = i
         /\ OwnClose(pagePre, i) # 0
         /\ \A k \in 1..Len(fragment) : fragment[k] \notin {"ESC_NL", "ESC_BAD"})
        => /\ page = SubSeq(pagePre, 1, i - 1) \o fragment
                       \o SubSeq(pagePre, OwnClose(pagePre, i) + 1, Len(pagePre))
           /\ ~Contains(page, "PH_OPEN")

\* the latest call found a marker and substituted: the file exists, holds the
\* placeholder element or the legacy marker, and re.sub took the fragment
Substituted ==
    /\ injCalls > 0
    /\ pageExists
    /\ \/ HasPlaceholderElement(pagePre) /\ ~Contains(fragment, "ESC_BAD")
       \/ ~HasPlaceholderElement(pagePre) /\ HasLegacyMarker(pagePre)

\* C21: when a marker is found and the substituted document is no more than
\* 100 characters longer than the document before, the call returns false
\* and the file holds the substituted document (the marker is gone from it
\* unless the fragment brought one): the write is not rolled back.
C21_SmallGrowthIsWrittenAndFalse ==
    (/\ Substituted
     /\ StrLen(InjectNewHtml(pagePre, fragment)) - StrLen(pagePre) <= MinGrowth)
        => /\ injRet = FALSE
           /\ page = InjectNewHtml(pagePre, fragment)
           /\ Growth <= MinGrowth
           /\ (~HasPlaceholderElement(fragment) /\ ~HasLegacyMarker(fragment)
               /\ ~HasPlaceholderElement(pagePre))
                 => ~HasLegacyMarker(page)

\* a call on a page with the legacy marker returned false and changed the
\* file
C21_Witness ==
    /\ injCalls = 1
    /\ HasLegacyMarker(pagePre)
    /\ ~HasPlaceholderElement(pagePre)
    /\ fragment = <<"t">>
    /\ injRet = FALSE
    /\ page # pagePre
    /\ ~HasLegacyMarker(page)

---------------------------------------------------------------------------
(* Classification of a directory listing *)

\* file names a schema directory may hold
FileNames ==
    { <<"ValueSet-", "a", ".schema.json">>,
      <<"ValueSet-", "b", ".schema.json">>,
      <<"CodeSystem-", "a", ".schema.json">>,
      <<"b", ".schema.json">>,
      ValueSetsCatalogName,
      LogicalModelsCatalogName,
      <<"ValueSet-", "a", ".jsonld">>,
      <<"ValueSet-", "a", ".openapi.json">>,
      <<"c", ".md">> }

\* the listings of at most n files: no name twice
Listings(names, n) ==
    {l \in SeqsUpTo(names, n) : \A i, j \in 1..Len(l) : l[i] = l[j] => i = j}

ClsInit ==
    /\ dirExists \in BOOLEAN
    /\ listing \in IF dirExists THEN Listings(FileNames, MaxFiles) ELSE {<<>>}
    /\ schemas = NoSchemas
    /\ scanned = FALSE

\* one call of find_schema_files on the directory
FindSchemaFiles ==
    /\ ~scanned
    /\ schemas' = find_schema_files(dirExists, listing)
    /\ scanned' = TRUE
    /\ UNCHANGED <<dirExists, listing>>

InjIdle ==
    /\ pageExists = FALSE
    /\ page = <<>>
    /\ pagePre = <<>>
    /\ fragment = <<>>
    /\ injRet = "none"
    /\ injCalls = 0

ClsIdle ==
    /\ dirExists = FALSE
    /\ listing = <<>>
    /\ schemas = NoSchemas
    /\ scanned = FALSE

\* the places of a file in a bucket
Places(bucket, file) == {i \in 1..Len(bucket) : bucket[i] = file}

\* the suffix-matching files of a listing
SuffixMatching(l) == {i \in 1..Len(l) : EndsWith(l[i], ".schema.json")}

\* C2: every listed file whose name ends in .schema.json is in exactly one
\* of the buckets valueset, logical_model, other (once); no other file is in
\* any bucket; the three bucket sizes sum to the number of such files.
C2_ClassificationComplete ==
    scanned =>
        /\ \A i \in SuffixMatching(listing) :
              Cardinality(Places(schemas.valueset, listing[i]))
                + Cardinality(Places(schemas.logical_model, listing[i]))
                + Cardinality(Places(schemas.other, listing[i])) = 1
        /\ \A b \in {"valueset", "logical_model", "other"} :
              \A k \in 1..Len(schemas[b]) :
                 \E i \in SuffixMatching(listing) : listing[i] = schemas[b][k]
        /\ Len(schemas.valueset) + Len(schemas.logical_model) + Len(schemas.other)
              = Cardinality(SuffixMatching(listing))

C2_Witness ==
    /\ scanned
    /\ Len(schemas.valueset) > 0
    /\ Len(schemas.logical_model) > 0
    /\ Len(schemas.other) > 0

\* the bucket lists its files in the order of the listing
InListingOrder(bucket) ==
    \A a, b \in 1..Len(bucket) :
        a < b => \E i, j \in 1..Len(listing) :
                    i < j /\ listing[i] = bucket[a] /\ listing[j] = bucket[b]

\* C23 as stated: a suffix-matching file is in the valueset bucket when its
\* name starts with ValueSet-, in the logical_model bucket when it starts
\* with neither ValueSet- nor CodeSystem-, in the other bucket when it starts
\* with CodeSystem-; each bucket is in listing order; a directory that does
\* not exist gives three empty buckets.
C23_PrefixDecidesBucket ==
    scanned =>
        /\ \A i \in SuffixMatching(listing) :
              LET f == listing[i] IN
              /\ StartsWith(f, "ValueSet-") => Places(schemas.valueset, f) # {}
              /\ (~StartsWith(f, "ValueSet-") /\ ~StartsWith(f, "CodeSystem-"))
                    => Places(schemas.logical_model, f) # {}
              /\ StartsWith(f, "CodeSystem-") => Places(schemas.other, f) # {}
        /\ \A b \in DOMAIN schemas : InListingOrder(schemas[b])
        /\ ~dirExists => schemas = NoSchemas

\* C17 as stated: a file of the scanned directory named ValueSets.schema.json
\* or LogicalModels.schema.json is not put in a per-item bucket (the lists
\* the two item loops of main run over to write specifications and entries).
C17_CatalogFilesNotInItemBuckets ==
    scanned =>
        \A K \in {"valueset", "logical_model"} : \A i \in 1..Len(schemas[K]) :
            schemas[K][i] \notin {ValueSetsCatalogName, LogicalModelsCatalogName}

---------------------------------------------------------------------------
(* Runs of a QAReporter over one qa.json *)

AbsentFile == [kind |-> "absent", val |-> <<>>]
UnreadableFile == [kind |-> "unreadable", val |-> <<>>]
JsonObject(d) == [kind |-> "object", val |-> d]
JsonList(l) == [kind |-> "list", val |-> l]

\* what may be at output/qa.json before the first run
ExternalFiles ==
    <<AbsentFile,
      UnreadableFile,
      JsonObject(EmptyDict),
      JsonObject([errs |-> 0, warnings |-> 2]),
      JsonList(<<>>),
      JsonList(<<[pair |-> FALSE, k |-> "", v |-> 0]>>),
      JsonList(<<[pair |-> TRUE, k |-> "errs", v |-> 0]>>)>>

\* the preprocessing reports a run may be handed
PreprocessingInputs ==
    <<[component |-> "A",
       details |-> [successes |-> <<[message |-> <<"m">>]>>]],
      [phase |-> "A",
       details |-> [errors |-> <<[message |-> <<"e">>, details |-> [n |-> 1]]>>]],
      [details |-> [files_processed |-> <<[file |-> <<"f">>]>>]]>>

QaStart ==
    /\ \E i \in 1..Len(ExternalFiles) : qaFile = ExternalFiles[i]
    /\ qa = NewReporter("postprocessing", 0)
    /\ qaNow = 1
    /\ qaLoadRet = FALSE
    /\ qaPc = "new"
    /\ qaRun = 1
    /\ qaResult = EmptyDict

\* a logging call, made before the report is finalized
QaLogged(q) ==
    /\ qaPc \in {"new", "loaded"}
    /\ qaNow <= MaxClock
    /\ qa' = q
    /\ qaNow' = qaNow + 1
    /\ UNCHANGED <<qaFile, qaLoadRet, qaPc, qaRun, qaResult>>

QaAddSuccess == QaLogged(add_success(qa, <<"m">>, EmptyDict, qaNow))

QaAddWarning == QaLogged(add_warning(qa, <<"m">>, [n |-> 1], qaNow))

QaAddError == QaLogged(add_error(qa, <<"m">>, EmptyDict, qaNow))

QaAddFileProcessed ==
    QaLogged(add_file_processed(qa, <<"f">>, "success", EmptyDict, qaNow))

QaAddFileExpected ==
    \E found \in BOOLEAN : QaLogged(add_file_expected(qa, <<"f">>, found))

QaMergePreprocessing ==
    \E i \in 1..Len(PreprocessingInputs) :
        QaLogged(merge_preprocessing_report(qa, PreprocessingInputs[i], qaNow))

QaLoad ==
    /\ qaPc = "new"
    /\ qa' = load_existing_ig_qa(qa, qaFile)
    /\ qaLoadRet' = load_existing_ig_qa_ret(qaFile)
    /\ qaPc' = "loaded"
    /\ UNCHANGED <<qaFile, qaNow, qaRun, qaResult>>

QaFinalize ==
    /\ qaPc \in {"new", "loaded"}
    /\ \E status \in {"completed", "completed_with_errors", "failed"} :
          /\ qa' = Finalized(qa, status, qaNow)
          /\ qaResult' = finalize_report(qa, status, qaNow)
    /\ qaNow' = qaNow + 1
    /\ qaPc' = "final"
    /\ UNCHANGED <<qaFile, qaLoadRet, qaRun>>

\* save_to_file(path, payload): the payload is at the path afterwards, or
\* the write failed and the path is as it was
QaSave ==
    /\ qaPc = "final"
    /\ \E ok \in BOOLEAN :
          qaFile' = IF ok THEN JsonObject(qaResult) ELSE qaFile
    /\ qaPc' = "saved"
    /\ UNCHANGED <<qa, qaNow, qaLoadRet, qaRun, qaResult>>

\* the program is run again over the same output directory
QaNewRun ==
    /\ qaPc = "saved"
    /\ qaRun < MaxRuns
    /\ qa' = NewReporter("postprocessing", qaNow)
    /\ qaNow' = qaNow + 1
    /\ qaLoadRet' = FALSE
    /\ qaPc' = "new"
    /\ qaRun' = qaRun + 1
    /\ UNCHANGED <<qaFile, qaResult>>

QaIdle ==
    /\ qaFile = AbsentFile
    /\ qa = NewReporter("postprocessing", 0)
    /\ qaNow = 1
    /\ qaLoadRet = FALSE
    /\ qaPc = "new"
    /\ qaRun = 1
    /\ qaResult = EmptyDict

---------------------------------------------------------------------------
(* Claims about the merged QA report *)

\* the external report the reporter holds, once a load has returned True
LoadedObject ==
    /\ qaPc \in {"final", "saved"}
    /\ qaLoadRet
    /\ qa.ig_publisher_qa.kind = "object"

\* C10 as stated: for every external QA report E that was loaded, the object
\* finalize_report returns has every top-level key of E with its value
\* unchanged and differs from E by exactly one added key, dak_api_processing,
\* also when E was written by a previous run.
C10_AddsExactlyOneKey ==
    LoadedObject =>
        LET E == qa.ig_publisher_qa.val IN
        /\ "dak_api_processing" \notin DOMAIN E
        /\ DOMAIN qaResult = DOMAIN E \cup {"dak_api_processing"}
        /\ \A k \in DOMAIN E : qaResult[k] = E[k]

\* C10 amended: when the loaded E is a non-empty object, the returned object
\* has the keys of E and dak_api_processing, every key of E other than
\* dak_api_processing keeps its value, and dak_api_processing holds this
\* run's sub-tree, which replaces the one a previous run left in E; when E is
\* the empty object the reporter's own report is returned.
C10_KeepsForeignKeys ==
    LoadedObject =>
        LET E == qa.ig_publisher_qa.val IN
        IF E # EmptyDict
        THEN /\ DOMAIN qaResult = DOMAIN E \cup {"dak_api_processing"}
             /\ \A k \in DOMAIN E \ {"dak_api_processing"} : qaResult[k] = E[k]
             /\ qaResult["dak_api_processing"].postprocessing = qa.report
        ELSE /\ DOMAIN qaResult = DOMAIN qa.report
             /\ qaResult = qa.report

\* a second run has loaded what the first run saved, and replaced the
\* sub-tree of the first run while keeping a foreign key
C10_Witness ==
    /\ LoadedObject
    /\ qaRun = 2
    /\ "dak_api_processing" \in DOMAIN qa.ig_publisher_qa.val
    /\ "errs" \in DOMAIN qa.ig_publisher_qa.val
    /\ "errs" \in DOMAIN qaResult
    /\ qaResult["dak_api_processing"].postprocessing.timestamp
          # qa.ig_publisher_qa.val["dak_api_processing"].postprocessing.timestamp

\* finalize_report has returned
ReportReturned == qaPc \in {"final", "saved"}

\* C11 as stated: finalize_report returns the merged object (the external
\* report plus the dak_api_processing key) whenever load_existing_ig_qa
\* loaded an external report, whatever its content (the empty object
\* included), and the run's own report only when none was loaded.
C11_MergedWheneverLoaded ==
    ReportReturned =>
        /\ (qaLoadRet /\ qa.ig_publisher_qa.kind = "object") =>
              DOMAIN qaResult = DOMAIN qa.ig_publisher_qa.val \cup {"dak_api_processing"}
        /\ (DOMAIN qaResult = DOMAIN qa.report /\ qaResult = qa.report) => ~qaLoadRet

\* finalize_report has returned the merged object
Merged == ReportReturned /\ "dak_api_processing" \in DOMAIN qaResult

\* C12: after finalize_report, whatever calls were made before it, each
\* summary total is the length of its log, and the summary of
\* dak_api_processing in the merged object shows the same success, warning
\* and error totals.
C12_TotalsAreLogLengths ==
    ReportReturned =>
        /\ qa.report.summary.total_successes = Len(qa.report.details.successes)
        /\ qa.report.summary.total_warnings = Len(qa.report.details.warnings)
        /\ qa.report.summary.total_errors = Len(qa.report.details.errors)
        /\ qa.report.summary.files_processed_count
              = Len(qa.report.details.files_processed)
        /\ qa.report.summary.files_expected_count
              = Len(qa.report.details.files_expected)
        /\ qa.report.summary.files_missing_count
              = Len(qa.report.details.files_missing)
        /\ Merged =>
              LET sum == qaResult["dak_api_processing"].summary IN
              /\ sum.total_dak_api_successes = Len(qa.report.details.successes)
              /\ sum.total_dak_api_warnings = Len(qa.report.details.warnings)
              /\ sum.total_dak_api_errors = Len(qa.report.details.errors)

\* a merged object of a run with one warning and no stored report
C12_Witness ==
    /\ Merged
    /\ Len(qa.report.details.warnings) = 1
    /\ qa.stored = <<>>
    /\ qaResult["dak_api_processing"].summary.total_dak_api_warnings = 1
    /\ "errs" \in DOMAIN qaResult

\* C13 as stated: in the merged object the map preprocessing_reports holds
\* every component report that was received (a later report never takes
\* the place of an earlier one stored under the same key).
C13_EveryReportKept ==
    Merged =>
        LET kept == qaResult["dak_api_processing"].preprocessing_reports IN
        \A i \in 1..Len(qa.stored) : \E n \in DOMAIN kept : kept[n] = qa.stored[i]

\* C13 amended: the keys of the map are the keys of the received reports
\* (the component, else the phase, else component_<index>), and under each
\* key the map holds the last report received with that key.
C13_LastReportWins ==
    Merged =>
        LET kept == qaResult["dak_api_processing"].preprocessing_reports
            key(i) == StoredName(qa.stored, i - 1)
        IN /\ DOMAIN kept = {key(i) : i \in 1..Len(qa.stored)}
           /\ \A i \in 1..Len(qa.stored) :
                 (\A j \in (i + 1)..Len(qa.stored) : key(j) # key(i))
                    => kept[key(i)] = qa.stored[i]

\* two different reports were received under one key and the map holds the
\* second alone
C13_Witness ==
    /\ Merged
    /\ Len(qa.stored) = 2
    /\ qa.stored[1] # qa.stored[2]
    /\ DOMAIN qaResult["dak_api_processing"].preprocessing_reports = {"A"}
    /\ qaResult["dak_api_processing"].preprocessing_reports["A"] = qa.stored[2]


\* the six logs of the report
LogNames ==
    {"successes", "warnings", "errors", "files_processed", "files_expected",
     "files_missing"}

\* a is the beginning of b
IsPrefix(a, b) == Len(a) <= Len(b) /\ SubSeq(b, 1, Len(a)) = a

\* a can be had from b by leaving entries out: a[1..i] from b[1..j]
RECURSIVE IsSubList(_, _, _, _)
IsSubList(a, b, i, j) ==
    IF i = 0 THEN TRUE
    ELSE IF j = 0 THEN FALSE
    ELSE IF a[i] = b[j] THEN IsSubList(a, b, i - 1, j - 1)
    ELSE IsSubList(a, b, i, j - 1)

\* C22: the logs of a reporter are append-only: over every call on the same
\* reporter (add_*, merge_preprocessing_report, and load, finalize and save
\* as well) each of the six logs afterwards begins with the log before, so
\* earlier entries stay, unmodified and in their order, and new ones come at
\* the end; and files_missing is always a sub-list of files_expected.
C22_LogsAppendOnly ==
    /\ [](LET d == qa.report.details
          IN IsSubList(d.files_missing, d.files_expected,
                       Len(d.files_missing), Len(d.files_expected)))
    /\ [][qaRun' = qaRun =>
             \A k \in LogNames :
                 IsPrefix(qa.report.details[k], qa'.report.details[k])]_vars

\* a reporter after a merged component report and a call of its own: the
\* success folded in from the report is followed by the reporter's own
C22_Witness ==
    LET d == qa.report.details IN
    /\ Len(qa.stored) = 1
    /\ Len(d.successes) = 2
    /\ d.successes[1].timestamp < d.successes[2].timestamp
    /\ d.successes[1].message # d.successes[2].message

\* C30: finalize_report leaves the external report the reporter holds as it
\* was loaded, the same keys with the same values as the file it was read
\* from, and leaves the stored component reports as they were handed in;
\* a stored report is never changed or dropped during a run.
C30_MergeLeavesInputsAlone ==
    /\ []((qaPc = "final" /\ qaLoadRet) => qa.ig_publisher_qa = qaFile)
    /\ [](\A i \in 1..Len(qa.stored) :
             \E k \in 1..Len(PreprocessingInputs) : qa.stored[i] = PreprocessingInputs[k])
    /\ [][/\ (qaPc # "final" /\ qaPc' = "final") =>
                (qa'.ig_publisher_qa = qa.ig_publisher_qa /\ qa'.stored = qa.stored)
          /\ qaRun' = qaRun => IsPrefix(qa.stored, qa'.stored)]_vars

\* finalize_report has returned the merged object, which has the key
\* dak_api_processing and a component report in it, while the external
\* report the reporter holds has no such key
C30_Witness ==
    /\ qaPc = "final" /\ qaLoadRet /\ Merged
    /\ qa.ig_publisher_qa.kind = "object"
    /\ "dak_api_processing" \notin DOMAIN qa.ig_publisher_qa.val
    /\ Len(qa.stored) = 1
    /\ DOMAIN qaResult["dak_api_processing"].preprocessing_reports # {}

---------------------------------------------------------------------------
(* main: one run of the program *)

\* the schema files output/schemas may hold, in the order os.listdir gives
MainNames ==
    << <<"ValueSet-", "a", ".schema.json">>,
       <<"ValueSet-", "b", ".schema.json">>,
       <<"c", ".schema.json">>,
       <<"CodeSystem-", "a", ".schema.json">> >>

\* the names at the positions S
PickNames(S) ==
    LET F[i \in 0..Len(MainNames)] ==
            IF i = 0 THEN <<>>
            ELSE IF i \in S THEN Append(F[i - 1], MainNames[i]) ELSE F[i - 1]
    IN F[Len(MainNames)]

\* the listings of at most n of these files
MainListings(n) ==
    {PickNames(S) : S \in {T \in SUBSET (1..Len(MainNames)) : Cardinality(T) <= n}}

\* the landing pages a run may find: with the placeholder element, with the
\* legacy marker, with neither, with a placeholder element holding more text
\* than any hub fragment of the run
LandingPages ==
    { <<"PH_OPEN", "DIV_CLOSE">>,
      <<"LEGACY">>,
      <<"DIV_OPEN", "DIV_CLOSE">>,
      <<"PH_OPEN", "BULK", "BULK", "DIV_CLOSE">> }

\* what json.load gives for the schema file at schema_path: "ok" for an
\* object with a title and a description, "bad" for a file that cannot be
\* opened or parsed
ContentOf(schema_path) ==
    fileContent[CHOOSE i \in 1..Len(listing) : listing[i] = schema_path]

Readable(schema_path) == ContentOf(schema_path) = "ok"

\* schema.get("title", ...), schema.get("description", ...) of a readable file
SchemaTitle(schema_path) == <<"t">>
SchemaDescription(schema_path) == <<"t">>

\* schema_filename.replace(".schema.json", "")
SchemaName(schema_path) == Without(schema_path, ".schema.json")

\* the positions a loop reaches that stops at the first file it cannot read
ItemsRead_untilFailure(bucket) ==
    LET bad == {i \in 1..Len(bucket) : ~Readable(bucket[i])}
        stop == IF bad = {} THEN Len(bucket) + 1
                ELSE CHOOSE i \in bad : \A j \in bad : i <= j
    IN [i \in 1..(stop - 1) |-> i]

\* the positions of a bucket whose iteration of the loop in main runs to its
\* end: open or json.load raising ends that iteration alone
ItemsRead(bucket) ==
    LET Test(i) == Readable(bucket[i])
    IN SelectSeq([i \in 1..Len(bucket) |-> i], Test)

\* os.path.exists for a file of output/schemas that a run before this one
\* may have left there
OnDisk(filename) == \E i \in 1..Len(listing) : listing[i] = filename

\* a wrapper whose file name ends like the name of a schema file
create_wrapper_for_schema_asSchema(schema_path, written) ==
    IF Readable(schema_path) /\ written
    THEN SchemaName(schema_path) \o <<".openapi", ".schema.json">>
    ELSE <<>>

\* create_wrapper_for_schema: the path of the specification written, <<>> for
\* None; written tells whether the file can be written
create_wrapper_for_schema(schema_path, written) ==
    IF Readable(schema_path) /\ written
    THEN SchemaName(schema_path) \o <<".openapi.json">>
    ELSE <<>>

\* json.load of a readable schema file: an object that names itself and
\* has a title and a description
LoadSchema(schema_path) ==
    [id |-> schema_path,
     title |-> SchemaTitle(schema_path),
     description |-> SchemaDescription(schema_path)]

\* a specification whose component registry is keyed by the file name
openapi_spec_keyedByFile(schema_path, schema_type) ==
    LET schema == LoadSchema(schema_path)
        schema_name == SchemaName(schema_path)
        what == IF schema_type = "valueset" THEN "the enumeration "
                ELSE "the Logical Model "
    IN [openapi |-> "3.0.3",
        info |-> [title |-> schema.title \o <<" API">>,
                  description |-> schema.description,
                  version |-> "1.0.0"],
        paths |-> (<<"/">> \o schema_path) :>
            [get |-> [summary |-> <<"JSON Schema definition for ", what>> \o schema_name,
                      description |-> <<"This endpoint serves the JSON Schema definition for ",
                                        what>> \o schema_name,
                      responses |-> "200" :>
                          [description |-> <<"The JSON Schema for ">> \o schema_name,
                           content |-> "application/schema+json" :>
                               [schema |-> "$ref" :> (<<"./">> \o schema_path)]]]],
        components |-> [schemas |-> schema_path :> schema]]

\* openapi_spec of create_wrapper_for_schema for a readable schema file
openapi_spec(schema_path, schema_type) ==
    LET schema == LoadSchema(schema_path)
        schema_name == SchemaName(schema_path)
        what == IF schema_type = "valueset" THEN "the enumeration "
                ELSE "the Logical Model "
    IN [openapi |-> "3.0.3",
        info |-> [title |-> schema.title \o <<" API">>,
                  description |-> schema.description,
                  version |-> "1.0.0"],
        paths |-> (<<"/">> \o schema_path) :>
            [get |-> [summary |-> <<"JSON Schema definition for ", what>> \o schema_name,
                      description |-> <<"This endpoint serves the JSON Schema definition for ",
                                        what>> \o schema_name,
                      responses |-> "200" :>
                          [description |-> <<"The JSON Schema for ">> \o schema_name,
                           content |-> "application/schema+json" :>
                               [schema |-> "$ref" :> (<<"./">> \o schema_path)]]]],
        components |-> [schemas |-> schema_name :> schema]]

\* the documents create_wrapper_for_schema writes in a loop of main over a
\* bucket, in the order of the bucket
WrittenSpecs(schema_type, bucket, written) ==
    LET Made(i) == create_wrapper_for_schema(bucket[i], written[i]) # <<>>
        made == SelectSeq([i \in 1..Len(bucket) |-> i], Made)
    IN [k \in 1..Len(made) |-> openapi_spec(bucket[made[k]], schema_type)]

\* an entry that names the vocabulary file of an item of either kind
ItemEntry_anyKind(schema_path, wrapper_path, schema_type) ==
    [title |-> SchemaTitle(schema_path),
     description |-> SchemaDescription(schema_path),
     html_file |-> SchemaName(schema_path) \o <<".html">>,
     schema_file |-> <<"schemas/">> \o schema_path,
     displays_file |-> <<>>,
     jsonld_file |-> IF OnDisk(SchemaName(schema_path) \o <<".jsonld">>)
                     THEN <<"schemas/">> \o SchemaName(schema_path) \o <<".jsonld">>
                     ELSE <<>>,
     openapi_file |-> IF wrapper_path # <<>>
                         \/ OnDisk(SchemaName(schema_path) \o <<".openapi.json">>)
                      THEN <<"schemas/">> \o SchemaName(schema_path)
                                         \o <<".openapi.json">>
                      ELSE <<>>]

\* the schema_docs entry main appends for an item in the loop over the
\* bucket schema_type; no displays file is on disk
ItemEntry(schema_path, wrapper_path, schema_type) ==
    [title |-> SchemaTitle(schema_path),
     description |-> SchemaDescription(schema_path),
     html_file |-> SchemaName(schema_path) \o <<".html">>,
     schema_file |-> <<"schemas/">> \o schema_path,
     displays_file |-> <<>>,
     jsonld_file |-> IF schema_type = "valueset"
                        /\ OnDisk(SchemaName(schema_path) \o <<".jsonld">>)
                     THEN <<"schemas/">> \o SchemaName(schema_path) \o <<".jsonld">>
                     ELSE <<>>,
     openapi_file |-> IF wrapper_path # <<>>
                         \/ OnDisk(SchemaName(schema_path) \o <<".openapi.json">>)
                      THEN <<"schemas/">> \o SchemaName(schema_path)
                                         \o <<".openapi.json">>
                      ELSE <<>>]

\* one of the two loops of main over a bucket; written[i] tells whether the
\* specification of bucket[i] can be written
ProcessItems(schema_type, bucket, written) ==
    LET read == ItemsRead(bucket)
        wrapper(i) == create_wrapper_for_schema(bucket[i], written[i])
        Made(i) == wrapper(i) # <<>>
        made == SelectSeq(read, Made)
    IN [docs |-> [k \in 1..Len(read) |-> ItemEntry(bucket[read[k]], wrapper(read[k]), schema_type)],
        wrappers |-> [k \in 1..Len(made) |-> wrapper(made[k])]]

\* the entries create_enumeration_schema would list if it took every path
EnumerationEntries_all(schema_files) ==
    [k \in 1..Len(schema_files) |->
        [filename |-> schema_files[k],
         title |-> SchemaTitle(schema_files[k]),
         description |-> SchemaDescription(schema_files[k]),
         url |-> <<"./">> \o schema_files[k]]]

\* schemas_list of create_enumeration_schema: an entry for each path that
\* can be read and parsed
EnumerationEntries(schema_files) ==
    LET ok == SelectSeq(schema_files, Readable)
    IN [k \in 1..Len(ok) |->
           [filename |-> ok[k],
            title |-> SchemaTitle(ok[k]),
            description |-> SchemaDescription(ok[k]),
            url |-> <<"./">> \o ok[k]]]

\* the document create_enumeration_schema writes
create_enumeration_schema(schema_type, schema_files) ==
    LET schemas_list == EnumerationEntries(schema_files) IN
    [type |-> schema_type,
     filename |-> IF schema_type = "valueset"
                  THEN ValueSetsCatalogName ELSE LogicalModelsCatalogName,
     example |-> [type |-> schema_type,
                  count |-> Len(schemas_list),
                  schemas |-> schemas_list]]

\* a catalog-level specification without the example of the catalog
create_enumeration_wrapper_bare(enum_schema, schema_type) ==
    [type |-> schema_type,
     filename |-> IF schema_type = "valueset"
                  THEN <<"ValueSets", "-enumeration", ".openapi.json">>
                  ELSE <<"LogicalModels", "-enumeration", ".openapi.json">>,
     example |-> EmptyDict,
     components |-> enum_schema]

\* the document create_enumeration_wrapper writes for a catalog
create_enumeration_wrapper(enum_schema, schema_type) ==
    [type |-> schema_type,
     filename |-> IF schema_type = "valueset"
                  THEN <<"ValueSets", "-enumeration", ".openapi.json">>
                  ELSE <<"LogicalModels", "-enumeration", ".openapi.json">>,
     example |-> Get(enum_schema, "example", EmptyDict),
     components |-> enum_schema]

\* the enumeration phase of main for one kind; outcome tells what can be
\* written: "none", "catalog" (the catalog alone), "both"
EnumerationPhase(schema_type, bucket, outcome, enum_doc) ==
    IF bucket = <<>> \/ outcome = "none"
    THEN [catalogs |-> <<>>, wrappers |-> <<>>, docs |-> <<>>]
    ELSE LET enum_schema == create_enumeration_schema(schema_type, bucket) IN
         [catalogs |-> <<enum_schema>>,
          wrappers |-> IF outcome = "both"
                       THEN <<create_enumeration_wrapper(enum_schema, schema_type)>>
                       ELSE <<>>,
          docs |-> <<enum_doc>>]

\* the openapi_docs entry main appends for a specification file under
\* output/schemas; rendered tells whether inject_into_html returned the page
OpenApiDoc(filename, rendered) ==
    LET clean_name == Without(filename, ".openapi.json") IN
    [title |-> clean_name \o <<" API">>,
     description |-> <<"OAS_DESC">> \o clean_name,
     file_path |-> <<"schemas/">> \o filename,
     html_file |-> IF rendered THEN clean_name \o <<".html">> ELSE <<>>]

\* qa_reporter.add_file_processed for the paths[1..n] of a bucket
RECURSIVE AddDetected(_, _, _, _, _)
AddDetected(q, paths, n, status, now) ==
    IF n = 0 THEN q
    ELSE add_file_processed(AddDetected(q, paths, n - 1, status, now),
                            paths[n], status, EmptyDict, now)

\* try_merge when neither of its two paths exists
TryMergeAbsent(q, label, now) ==
    add_warning(q, <<"MSG_NO_REPORT", label>>, EmptyDict, now)

\* the reporter at the check of the output directory: the two opening
\* entries, the load of output/qa.json, the four try_merge calls (no
\* preprocessing report is present) and add_file_expected(output_dir)
ReporterAtCheck(q, file, now) ==
    LET q2 == add_success(add_success(q, <<"MSG_STARTING">>, EmptyDict, now),
                          <<"MSG_CONFIGURED">>, EmptyDict, now)
        q3 == load_existing_ig_qa(q2, file)
        q4 == IF load_existing_ig_qa_ret(file)
              THEN add_success(q3, <<"MSG_LOADED_QA">>, EmptyDict, now)
              ELSE add_warning(q3, <<"MSG_NO_QA">>, EmptyDict, now)
        q5 == TryMergeAbsent(TryMergeAbsent(TryMergeAbsent(TryMergeAbsent(
                  q4, "preprocessing", now), "valueset_schemas", now),
                  "logical_model_schemas", now), "jsonld_vocabularies", now)
    IN add_file_expected(q5, <<"output">>, FALSE)

\* save_to_file at the primary path and, when that fails, at the backup
\* path; outcome tells where the write succeeds
SavedFile(outcome, payload, file) ==
    IF outcome = "primary" THEN JsonObject(payload) ELSE file

\* the state main starts in when output/schemas, if it exists, holds one of
\* the listings
MainInitOver(listings) ==
    /\ pc = "start"
    /\ outDir \in BOOLEAN
    /\ dirExists = outDir
    /\ listing \in IF outDir THEN listings ELSE {<<>>}
    /\ fileContent \in [1..Len(listing) -> {"ok", "bad"}]
    /\ scanned = FALSE
    /\ schemas = NoSchemas
    /\ pageExists \in IF outDir THEN BOOLEAN ELSE {FALSE}
    /\ pageReadable \in IF pageExists THEN BOOLEAN ELSE {FALSE}
    /\ page \in IF pageReadable THEN LandingPages ELSE {<<>>}
    /\ pagePre = page
    /\ fragment = <<>>
    /\ injRet = "none"
    /\ injCalls = 0
    /\ \E f \in {AbsentFile, JsonObject([errs |-> 0, warnings |-> 2])} :
          qaFile = IF outDir THEN f ELSE AbsentFile
    /\ qa = NewReporter("postprocessing", 0)
    /\ qaNow = 1
    /\ qaLoadRet = FALSE
    /\ qaPc = "new"
    /\ qaRun = 1
    /\ qaResult = EmptyDict
    /\ schemaDocs = NoDocs
    /\ enumerationDocs = <<>>
    /\ openapiDocs = <<>>
    /\ wrappers = <<>>
    /\ catalogs = <<>>
    /\ catalogWrappers = <<>>
    /\ qaSavedAt = "none"
    /\ exitCode = -1
    /\ exitAt = "none"
    /\ wrapperSpecs = <<>>
    /\ firstRun = EmptyDict

MainInit == MainInitOver(MainListings(MaxMainFiles))

\* main from its start to the check of the output directory
MainStart ==
    /\ pc = "start"
    /\ qaLoadRet' = load_existing_ig_qa_ret(qaFile)
    /\ qaNow' = qaNow + 1
    /\ LET q == ReporterAtCheck(qa, qaFile, qaNow) IN
       IF ~outDir
       THEN LET qe == add_error(q, <<"MSG_NO_OUTPUT_DIR", "output">>, EmptyDict, qaNow) IN
            /\ qa' = Finalized(qe, "failed", qaNow)
            /\ qaResult' = finalize_report(qe, "failed", qaNow)
            /\ qaPc' = "saved"
            /\ \E outcome \in {"primary", "nowhere"} :
                  /\ qaFile' = SavedFile(outcome, finalize_report(qe, "failed", qaNow), qaFile)
                  /\ qaSavedAt' = outcome
            /\ exitCode' = 1
            /\ exitAt' = "output_dir"
            /\ pc' = "done"
       ELSE /\ qa' = add_success(
                        add_success(q, <<"MSG_OUTPUT_DIR_EXISTS">>, EmptyDict, qaNow),
                        <<"MSG_SAMPLED">>, [sample_files |-> listing], qaNow)
            /\ qaPc' = "loaded"
            /\ pc' = "detect"
            /\ UNCHANGED <<qaResult, qaFile, qaSavedAt, exitCode, exitAt>>
    /\ UNCHANGED <<injVars, clsVars, qaRun, outDir, fileContent, pageReadable,
                   schemaDocs, enumerationDocs, openapiDocs, wrappers,
                   catalogs, catalogWrappers,
                   wrapperSpecs, firstRun>>

\* a main that goes on to the synthesis without looking for the landing page
LandingPageCheck_skipped(exists, readable) ==
    [pc |-> "valuesets", exitCode |-> -1, exitAt |-> "none"]

\* the check of the landing page before the synthesis: where main goes next,
\* and the exit status and place when it stops there.  An absent page ends
\* the run by sys.exit(1), a page that cannot be read by the exception of
\* the open or read call
LandingPageCheck(exists, readable) ==
    IF ~exists THEN [pc |-> "done", exitCode |-> 1, exitAt |-> "landing_page"]
    ELSE IF ~readable
    THEN [pc |-> "done", exitCode |-> 1, exitAt |-> "landing_page_read"]
    ELSE [pc |-> "valuesets", exitCode |-> -1, exitAt |-> "none"]

\* the detection phase and the check of the landing page
MainDetect ==
    /\ pc = "detect"
    /\ dirExists' = TRUE
    /\ scanned' = TRUE
    /\ schemas' = find_schema_files(TRUE, listing)
    /\ LET found == find_schema_files(TRUE, listing)
           q1 == add_success(qa, <<"MSG_INITIALIZED">>, EmptyDict, qaNow)
           q2 == AddDetected(q1, found.valueset, Len(found.valueset),
                             "valueset_schema_detected", qaNow)
           q3 == AddDetected(q2, found.logical_model, Len(found.logical_model),
                             "logical_model_schema_detected", qaNow)
       IN qa' = AddDetected(q3, found.other, Len(found.other),
                            "other_schema_detected", qaNow)
    /\ qaNow' = qaNow + 1
    /\ LET check == LandingPageCheck(pageExists, pageReadable)
       IN pc' = check.pc /\ exitCode' = check.exitCode /\ exitAt' = check.exitAt
    /\ UNCHANGED <<injVars, listing, qaFile, qaLoadRet, qaPc, qaRun, qaResult,
                   outDir, fileContent, pageReadable, schemaDocs, enumerationDocs,
                   openapiDocs, wrappers, catalogs, catalogWrappers, qaSavedAt,
                   wrapperSpecs, firstRun>>

\* the loop over the kind-A bucket
MainValueSets ==
    /\ pc = "valuesets"
    /\ \E written \in [1..Len(schemas.valueset) -> BOOLEAN] :
          LET r == ProcessItems("valueset", schemas.valueset, written) IN
          /\ schemaDocs' = [schemaDocs EXCEPT !.valueset = r.docs]
          /\ wrappers' = wrappers \o r.wrappers
          /\ wrapperSpecs' = wrapperSpecs
                \o WrittenSpecs("valueset", schemas.valueset, written)
    /\ pc' = "logical_models"
    /\ UNCHANGED <<injVars, clsVars, qaVars, outDir, fileContent, pageReadable,
                   enumerationDocs, openapiDocs, catalogs, catalogWrappers,
                   qaSavedAt, exitCode, exitAt,
                   firstRun>>

\* the loop over the kind-B bucket
MainLogicalModels ==
    /\ pc = "logical_models"
    /\ \E written \in [1..Len(schemas.logical_model) -> BOOLEAN] :
          LET r == ProcessItems("logical_model", schemas.logical_model, written) IN
          /\ schemaDocs' = [schemaDocs EXCEPT !.logical_model = r.docs]
          /\ wrappers' = wrappers \o r.wrappers
          /\ wrapperSpecs' = wrapperSpecs
                \o WrittenSpecs("logical_model", schemas.logical_model, written)
    /\ pc' = "enumerations"
    /\ UNCHANGED <<injVars, clsVars, qaVars, outDir, fileContent, pageReadable,
                   enumerationDocs, openapiDocs, catalogs, catalogWrappers,
                   qaSavedAt, exitCode, exitAt,
                   firstRun>>

\* the enumeration phase
MainEnumerations ==
    /\ pc = "enumerations"
    /\ \E vs, lm \in {"none", "catalog", "both"} :
          LET a == EnumerationPhase("valueset", schemas.valueset, vs, ValuesetEnumDoc)
              b == EnumerationPhase("logical_model", schemas.logical_model, lm,
                                    LogicalModelEnumDoc)
          IN /\ catalogs' = a.catalogs \o b.catalogs
             /\ catalogWrappers' = a.wrappers \o b.wrappers
             /\ enumerationDocs' = a.docs \o b.docs
    /\ pc' = "openapi"
    /\ UNCHANGED <<injVars, clsVars, qaVars, outDir, fileContent, pageReadable,
                   schemaDocs, openapiDocs, wrappers, qaSavedAt, exitCode,
                   exitAt,
                   wrapperSpecs, firstRun>>

\* find_openapi_files(schema_output_dir): the specification files under
\* output/schemas, those a run before left there and those written in this
\* run
GeneratedOpenApiFiles ==
    LET IsSpec(f) == EndsWith(f, ".openapi.json")
        IsNew(f) == ~OnDisk(f)
    IN SelectSeq(listing, IsSpec) \o SelectSeq(wrappers, IsNew)

\* the collection of the specification files: those under output/schemas
\* are the ones the three scans find
MainOpenApi ==
    /\ pc = "openapi"
    /\ \E rendered \in BOOLEAN :
          openapiDocs' = [k \in 1..Len(GeneratedOpenApiFiles) |->
                             OpenApiDoc(GeneratedOpenApiFiles[k], rendered)]
    /\ pc' = "hub"
    /\ UNCHANGED <<injVars, clsVars, qaVars, outDir, fileContent, pageReadable,
                   schemaDocs, enumerationDocs, wrappers, catalogs,
                   catalogWrappers, qaSavedAt, exitCode, exitAt,
                   wrapperSpecs, firstRun>>

\* the summary entry and post_process_dak_api_html
MainHub ==
    /\ pc = "hub"
    /\ qa' = add_success(qa, <<"MSG_SUMMARY">>,
                 [valueset_schema_docs |-> Len(schemaDocs.valueset),
                  logical_model_schema_docs |-> Len(schemaDocs.logical_model),
                  enumeration_endpoints |-> Len(enumerationDocs),
                  jsonld_vocabularies |-> 0,
                  openapi_docs |-> Len(openapiDocs)], qaNow)
    /\ qaNow' = qaNow + 1
    /\ LET hub_content == generate_hub_html_content(schemaDocs, openapiDocs,
                                                    enumerationDocs, <<>>)
           r == inject_content_at_comment_marker(pageExists, page, hub_content)
       IN /\ fragment' = hub_content
          /\ page' = r.html
          /\ injRet' = r.ret
    /\ pagePre' = page
    /\ injCalls' = injCalls + 1
    /\ pc' = "finalize"
    /\ UNCHANGED <<pageExists, clsVars, qaFile, qaLoadRet, qaPc, qaRun, qaResult,
                   outDir, fileContent, pageReadable, schemaDocs, enumerationDocs,
                   openapiDocs, wrappers, catalogs, catalogWrappers, qaSavedAt,
                   exitCode, exitAt,
                   wrapperSpecs, firstRun>>

\* finalize_report and the two attempts to save the report
MainFinalize ==
    /\ pc = "finalize"
    /\ LET qa_status == IF injRet = TRUE THEN "completed"
                        ELSE "completed_with_errors"
       IN /\ qa' = Finalized(qa, qa_status, qaNow)
          /\ qaResult' = finalize_report(qa, qa_status, qaNow)
          /\ \E outcome \in {"primary", "backup", "nowhere"} :
                /\ qaFile' = SavedFile(outcome, finalize_report(qa, qa_status, qaNow), qaFile)
                /\ qaSavedAt' = outcome
    /\ qaNow' = qaNow + 1
    /\ qaPc' = "saved"
    /\ pc' = "pause"
    /\ UNCHANGED <<injVars, clsVars, qaLoadRet, qaRun, outDir, fileContent,
                   pageReadable, schemaDocs, enumerationDocs, openapiDocs,
                   wrappers, catalogs, catalogWrappers, exitCode, exitAt,
                   wrapperSpecs, firstRun>>

\* the debug pause and sys.exit(0); with DEBUG_PAUSE set, input() returns
\* a line or raises EOFError on a standard input that is at its end
MainExit ==
    /\ pc = "pause"
    /\ \E pause \in {"off", "line", "eof"} :
          IF pause = "eof"
          THEN exitCode' = 1 /\ exitAt' = "debug_pause"
          ELSE exitCode' = 0 /\ exitAt' = "end"
    /\ pc' = "done"
    /\ UNCHANGED <<injVars, clsVars, qaVars, outDir, fileContent, pageReadable,
                   schemaDocs, enumerationDocs, openapiDocs, wrappers,
                   catalogs, catalogWrappers, qaSavedAt,
                   wrapperSpecs, firstRun>>

\* the program is started a second time, on the output tree that a first run
\* which came to its end and saved its report left: the
\* specifications written under output/schemas are in the listing of that
\* directory, before the files that were there (which keep their order)
MainRerun ==
    /\ pc = "done"
    /\ exitAt = "end"
    /\ qaSavedAt = "primary"
    /\ firstRun = EmptyDict
    /\ firstRun' = [schemas |-> schemas,
                    wrappers |-> wrappers,
                    wrapperSpecs |-> wrapperSpecs,
                    catalogs |-> catalogs,
                    catalogWrappers |-> catalogWrappers]
    /\ LET IsNew(f) == ~OnDisk(f)
           new == SelectSeq(wrappers, IsNew)
       IN /\ listing' = new \o listing
          /\ fileContent' = [i \in 1..Len(new) |-> "ok"] \o fileContent
    /\ pc' = "start"
    /\ qa' = NewReporter("postprocessing", qaNow)
    /\ qaNow' = qaNow + 1
    /\ qaLoadRet' = FALSE
    /\ qaPc' = "new"
    /\ qaRun' = qaRun + 1
    /\ qaResult' = EmptyDict
    /\ scanned' = FALSE
    /\ schemas' = NoSchemas
    /\ pagePre' = page
    /\ fragment' = <<>>
    /\ injRet' = "none"
    /\ injCalls' = 0
    /\ schemaDocs' = NoDocs
    /\ enumerationDocs' = <<>>
    /\ openapiDocs' = <<>>
    /\ wrappers' = <<>>
    /\ wrapperSpecs' = <<>>
    /\ catalogs' = <<>>
    /\ catalogWrappers' = <<>>
    /\ qaSavedAt' = "none"
    /\ exitCode' = -1
    /\ exitAt' = "none"
    /\ UNCHANGED <<page, pageExists, dirExists, qaFile, outDir, pageReadable>>

MainIdle ==
    /\ pc = "idle"
    /\ outDir = FALSE
    /\ fileContent = <<>>
    /\ pageReadable = FALSE
    /\ schemaDocs = NoDocs
    /\ enumerationDocs = <<>>
    /\ openapiDocs = <<>>
    /\ wrappers = <<>>
    /\ catalogs = <<>>
    /\ catalogWrappers = <<>>
    /\ qaSavedAt = "none"
    /\ exitCode = -1
    /\ exitAt = "none"
    /\ wrapperSpecs = <<>>
    /\ firstRun = EmptyDict

---------------------------------------------------------------------------
(* Claims about a run of main *)

\* how far main has come: 2 at the loop over the kind-A bucket, 9 past the
\* debug pause; a run stopped at one of the two checks has come no further
StageOf ==
    CASE pc = "start" -> 0
      [] pc = "detect" -> 1
      [] pc = "valuesets" -> 2
      [] pc = "logical_models" -> 3
      [] pc = "enumerations" -> 4
      [] pc = "openapi" -> 5
      [] pc = "hub" -> 6
      [] pc = "finalize" -> 7
      [] pc = "pause" -> 8
      [] pc = "done" -> IF exitAt \in {"end", "debug_pause"} THEN 9 ELSE 1
      [] OTHER -> 0

\* sub occurs in s as a run of consecutive tokens
IsInfix(sub, s) ==
    \E i \in 0..(Len(s) - Len(sub)) : SubSeq(s, i + 1, i + Len(sub)) = sub

\* the positions of the references of kind K whose file cannot be read
BadIn(K) == {i \in 1..Len(schemas[K]) : fileContent[CHOOSE j \in 1..Len(listing) :
                                             listing[j] = schemas[K][i]] = "bad"}

\* the references of kind K whose file can be read, in the order of the bucket
GoodOf(K) ==
    LET F[i \in 0..Len(schemas[K])] ==
            IF i = 0 THEN <<>>
            ELSE IF i \in BadIn(K) THEN F[i - 1]
                 ELSE Append(F[i - 1], schemas[K][i])
    IN F[Len(schemas[K])]

ItemKinds == {"valueset", "logical_model"}

\* C1 as stated: the run exits with a failure code only when the output
\* directory is absent or dak-api.html cannot be located, and with code 0 in
\* every other case (a debug pause included).
C1_FailsOnlyOnMissingDirOrPage ==
    pc = "done" =>
        /\ exitCode \in {0, 1}
        /\ (exitCode = 1) <=> (~outDir \/ ~pageExists)

\* C3 as stated: the count field of each catalog written in a run equals the
\* number of references of its kind the classifier discovered in that run.
C3_CountIsDiscovered ==
    \A k \in 1..Len(catalogs) :
        catalogs[k].example.count = Len(schemas[catalogs[k].type])

\* C3 amended: the count field of each catalog written in a run equals the
\* number of discovered references of its kind whose schema file could be
\* read and parsed; it is the number of discovered references exactly when
\* all of them could.
C3_CountIsReadable ==
    \A k \in 1..Len(catalogs) :
        LET K == catalogs[k].type IN
        /\ catalogs[k].example.count = Len(schemas[K]) - Cardinality(BadIn(K))
        /\ (catalogs[k].example.count = Len(schemas[K])) <=> (BadIn(K) = {})

\* a catalog of two discovered references, one of them unreadable
C3_Witness ==
    \E k \in 1..Len(catalogs) :
        /\ Len(schemas[catalogs[k].type]) = 2
        /\ catalogs[k].example.count = 1

\* C4: in every catalog written, whatever the paths given (readable or
\* not), the count of the example equals the length of its schemas array,
\* and the catalog-level specification made from it carries the same count
\* and the same schemas array in its example.
C4_ExampleCountIsLength ==
    /\ \A k \in 1..Len(catalogs) :
          catalogs[k].example.count = Len(catalogs[k].example.schemas)
    /\ \A w \in 1..Len(catalogWrappers) :
          \E k \in 1..Len(catalogs) :
             /\ catalogs[k].type = catalogWrappers[w].type
             /\ DOMAIN catalogWrappers[w].example = {"type", "count", "schemas"}
             /\ catalogWrappers[w].example.count = catalogs[k].example.count
             /\ catalogWrappers[w].example.schemas = catalogs[k].example.schemas

\* a catalog-level specification made from a catalog of a bucket with an
\* unreadable path and a readable one
C4_Witness ==
    \E w \in 1..Len(catalogWrappers) :
        /\ BadIn(catalogWrappers[w].type) # {}
        /\ catalogWrappers[w].example.count = 1
        /\ Len(catalogWrappers[w].example.schemas) = 1

C6_OneFailureOneErrorEntry ==
    (/\ pc = "done"
     /\ exitAt = "end"
     /\ qaSavedAt \in {"primary", "backup"}
     /\ Cardinality(BadIn("valueset")) + Cardinality(BadIn("logical_model")) = 1)
        => /\ Len(qa.report.details.errors) = 1
           /\ \E K \in ItemKinds : \E i \in BadIn(K) :
                 IsInfix(schemas[K][i], qa.report.details.errors[1].message)

\* C14 as stated: on every path by which a run terminates, the two fatal
\* paths included, the QA report has been finalized (its status is set and
\* finalize_report has returned an object) and a write of the report has been
\* attempted before the process exits.
C14_EveryExitFinalizesAndSaves ==
    pc = "done" =>
        /\ qa.report.status \in {"completed", "completed_with_errors", "failed"}
        /\ qaResult # EmptyDict
        /\ qaSavedAt \in {"primary", "backup", "nowhere"}

\* the names of the files a run wrote: item specifications, catalogs and
\* catalog-level specifications
NamesWritten(ws, cs, cws) ==
    {ws[k] : k \in 1..Len(ws)}
        \cup {cs[k].filename : k \in 1..Len(cs)}
        \cup {cws[k].filename : k \in 1..Len(cws)}

\* every file the run could write was written: a specification for each
\* readable item, a catalog and a catalog-level specification for each kind
\* that has items
AllWritten(ws, cs, cws) ==
    /\ Len(ws) = Len(GoodOf("valueset")) + Len(GoodOf("logical_model"))
    /\ Len(cs) = Cardinality({K \in ItemKinds : schemas[K] # <<>>})
    /\ Len(cws) = Len(cs)

SecondRun == qaRun = 2 /\ firstRun # EmptyDict

\* C15: in a second run on the output tree of a first run over the same
\* schema files, the classifier fills the buckets as in the first run and no
\* file the first run wrote is in a bucket; every specification or catalog
\* file the second run writes has the contents the first run gave the file of
\* that name; and when neither run fails to write a file, the second run
\* writes the same files with the same contents as the first.
C15_SecondRunSameFiles ==
    SecondRun =>
        /\ scanned =>
              /\ schemas = firstRun.schemas
              /\ \A K \in DOMAIN schemas : \A i \in 1..Len(schemas[K]) :
                    schemas[K][i] \notin NamesWritten(firstRun.wrappers,
                                         firstRun.catalogs, firstRun.catalogWrappers)
        /\ \A k \in 1..Len(wrappers) : \A j \in 1..Len(firstRun.wrappers) :
              wrappers[k] = firstRun.wrappers[j]
                  => wrapperSpecs[k] = firstRun.wrapperSpecs[j]
        /\ \A k \in 1..Len(catalogs) : \A j \in 1..Len(firstRun.catalogs) :
              catalogs[k].filename = firstRun.catalogs[j].filename
                  => catalogs[k] = firstRun.catalogs[j]
        /\ \A k \in 1..Len(catalogWrappers) : \A j \in 1..Len(firstRun.catalogWrappers) :
              catalogWrappers[k].filename = firstRun.catalogWrappers[j].filename
                  => catalogWrappers[k] = firstRun.catalogWrappers[j]
        /\ (/\ pc = "done"
            /\ AllWritten(wrappers, catalogs, catalogWrappers)
            /\ AllWritten(firstRun.wrappers, firstRun.catalogs,
                          firstRun.catalogWrappers))
              => /\ wrappers = firstRun.wrappers
                 /\ wrapperSpecs = firstRun.wrapperSpecs
                 /\ catalogs = firstRun.catalogs
                 /\ catalogWrappers = firstRun.catalogWrappers

\* a second run that came to its end over a kind-A item and a kind-B item
\* after a first run that wrote two specifications, two catalogs and two
\* catalog-level specifications; the two specifications are in the listing
\* the second run scanned, and the second run wrote all six files again
C15_Witness ==
    /\ SecondRun
    /\ pc = "done"
    /\ exitAt = "end"
    /\ Len(firstRun.wrappers) = 2
    /\ Len(firstRun.catalogs) = 2
    /\ Len(firstRun.catalogWrappers) = 2
    /\ \A j \in 1..Len(firstRun.wrappers) : OnDisk(firstRun.wrappers[j])
    /\ Len(wrappers) = 2
    /\ Len(catalogs) = 2
    /\ Len(catalogWrappers) = 2

\* F without its last piece, the suffix .schema.json
ItemName(F) == SubSeq(F, 1, Len(F) - 1)

\* spec is a specification of the schema file F: one path, /F, with one
\* operation, GET, whose 200 response refers to ./F, and one component
\* schema, under the item name, that is the document of F
WrapsSchema(spec, F) ==
    /\ DOMAIN spec.paths = {<<"/">> \o F}
    /\ DOMAIN spec.paths[<<"/">> \o F] = {"get"}
    /\ DOMAIN spec.paths[<<"/">> \o F].get.responses = {"200"}
    /\ spec.paths[<<"/">> \o F].get.responses["200"]
           .content["application/schema+json"].schema["$ref"] = <<"./">> \o F
    /\ DOMAIN spec.components.schemas = {ItemName(F)}
    /\ spec.components.schemas[ItemName(F)].id = F
    /\ spec.components.schemas[ItemName(F)].title = SchemaTitle(F)
    /\ spec.components.schemas[ItemName(F)].description = SchemaDescription(F)

\* C16: every specification written by create_wrapper_for_schema is the file
\* <item-name>.openapi.json of a readable schema file F = <item-name>.schema.json
\* of one of the two item buckets, and it has exactly one path, /F, with
\* exactly one operation, GET, whose 200 response references ./F, and exactly
\* one component schema, keyed by <item-name>, equal to the document of F;
\* and after the two loops every readable item has either this file or (its
\* write having failed) no link to a specification in its entry.
C16_WrapperWrapsItsSchema ==
    /\ Len(wrapperSpecs) = Len(wrappers)
    /\ \A k \in 1..Len(wrappers) :
          \E K \in ItemKinds : \E i \in 1..Len(schemas[K]) :
             LET F == schemas[K][i] IN
             /\ i \notin BadIn(K)
             /\ wrappers[k] = ItemName(F) \o <<".openapi.json">>
             /\ WrapsSchema(wrapperSpecs[k], F)
    /\ StageOf >= 4 =>
          \A K \in ItemKinds : \A e \in 1..Len(schemaDocs[K]) :
             schemaDocs[K][e].openapi_file # <<>> =>
                \E k \in 1..Len(wrappers) :
                   /\ <<"schemas/">> \o wrappers[k] = schemaDocs[K][e].openapi_file
                   /\ <<"schemas/">> \o GoodOf(K)[e] = schemaDocs[K][e].schema_file
                   /\ WrapsSchema(wrapperSpecs[k], GoodOf(K)[e])

\* a run wrote the specifications of a kind-A item and of a kind-B item
C16_Witness ==
    /\ StageOf >= 4
    /\ Len(wrappers) = 2
    /\ Len(schemaDocs.valueset) = 1
    /\ Len(schemaDocs.logical_model) = 1
    /\ schemaDocs.valueset[1].openapi_file # <<>>
    /\ schemaDocs.logical_model[1].openapi_file # <<>>
    /\ wrapperSpecs[1] # wrapperSpecs[2]

\* the hub fragment of the run has been rendered
HubRendered == pc \in {"finalize", "pause", "done"} /\ injCalls > 0

\* C19 as stated: in the hub fragment of a run, every link to an item
\* specification, a catalog schema or a catalog-level specification points
\* to a file the run wrote (no earlier run left files in the tree); when the
\* synthesis of such a file failed, the link is not in the fragment.
C19_HubLinksPointToFiles ==
    HubRendered =>
        /\ \A K \in ItemKinds : \A e \in 1..Len(schemaDocs[K]) :
              IsInfix(<<"A_OPENAPI">> \o schemaDocs[K][e].openapi_file, fragment)
                 => \E k \in 1..Len(wrappers) :
                       <<"schemas/">> \o wrappers[k] = schemaDocs[K][e].openapi_file
        /\ Contains(fragment, "A_VS_SCHEMA")
              => \E k \in 1..Len(catalogs) : catalogs[k].type = "valueset"
        /\ Contains(fragment, "A_LM_SCHEMA")
              => \E k \in 1..Len(catalogs) : catalogs[k].type = "logical_model"
        /\ Contains(fragment, "A_VS_OPENAPI")
              => \E k \in 1..Len(catalogWrappers) :
                    catalogWrappers[k].type = "valueset"
        /\ Contains(fragment, "A_LM_OPENAPI")
              => \E k \in 1..Len(catalogWrappers) :
                    catalogWrappers[k].type = "logical_model"

\* the readable references of kind K for which no specification was written
\* in the loop over their bucket (create_wrapper_for_schema returned None)
Unwritten(K) ==
    {i \in 1..Len(schemas[K]) :
        /\ i \notin BadIn(K)
        /\ \A k \in 1..Len(wrappers) :
              wrappers[k] # ItemName(schemas[K][i]) \o <<".openapi.json">>}

\* C20 as stated: an item whose specification file could not be written is
\* skipped: after the loop over its bucket it has no entry in schema_docs,
\* after the enumeration phase no entry in the catalog of its kind, and the
\* hub fragment does not mention it.
C20_UnwrittenItemIsSkipped ==
    \A K \in ItemKinds :
        StageOf >= (IF K = "valueset" THEN 3 ELSE 4) =>
            \A i \in Unwritten(K) :
                LET F == schemas[K][i] IN
                /\ \A e \in 1..Len(schemaDocs[K]) :
                      schemaDocs[K][e].schema_file # <<"schemas/">> \o F
                /\ StageOf >= 5 =>
                      \A k \in 1..Len(catalogs) :
                         catalogs[k].type = K =>
                            \A e \in 1..Len(catalogs[k].example.schemas) :
                               catalogs[k].example.schemas[e].filename # F
                /\ StageOf >= 7 => ~IsInfix(ItemName(F), fragment)

\* the combined "OpenAPI Documentation" grid of a hub fragment: the text
\* from its heading on
ApiGrid(hub) ==
    LET at == {i \in 1..Len(hub) : hub[i] = "API_H3"}
    IN IF at = {} THEN <<>>
       ELSE SubSeq(hub, CHOOSE x \in at : \A y \in at : x <= y, Len(hub))

\* the places of text where a card links to the specification file at path
SpecLinks(path, text) ==
    {i \in 1..(Len(text) - Len(path)) :
        /\ text[i] \in {"A_OPENAPI", "A_SPEC"}
        /\ SubSeq(text, i + 1, i + Len(path)) = path}

\* C25 as stated: in the combined grid of the hub, a specification the run
\* synthesized for an item is linked from at most one card: the item's own
\* card covers it and it gets no card among the specification files.
C25_OneCardPerSpecification ==
    HubRendered =>
        \A k \in 1..Len(wrappers) :
            Cardinality(SpecLinks(<<"schemas/">> \o wrappers[k], ApiGrid(fragment))) <= 1

\* the files output/schemas may hold in a run that looks for vocabulary
\* files: an item of each kind, the file <item-name>.jsonld of each, and a
\* vocabulary file whose name is the full name of the schema file of the
\* kind-A item followed by .jsonld
VocabularyNames ==
    << <<"ValueSet-", "a", ".schema.json">>,
       <<"c", ".schema.json">>,
       <<"ValueSet-", "a", ".jsonld">>,
       <<"c", ".jsonld">>,
       <<"ValueSet-", "a", ".schema.json", ".jsonld">> >>

\* the listings of at most MaxVocabularyFiles of these files, in the order of
\* os.listdir
VocabularyListings ==
    LET Pick(S) ==
            LET F[i \in 0..Len(VocabularyNames)] ==
                    IF i = 0 THEN <<>>
                    ELSE IF i \in S THEN Append(F[i - 1], VocabularyNames[i])
                    ELSE F[i - 1]
            IN F[Len(VocabularyNames)]
    IN {Pick(S) : S \in {T \in SUBSET (1..Len(VocabularyNames)) :
                            Cardinality(T) <= MaxVocabularyFiles}}

\* the places of the hub fragment where a vocabulary link begins, and the
\* target of the link at place i
VocabularyLinks == {i \in 1..Len(fragment) : fragment[i] \in {"A_JSONLD", "LI_JSONLD"}}

\* the hub fragment links to the file at path by a vocabulary link at place i
LinksVocabulary(i, path) ==
    /\ i + Len(path) <= Len(fragment)
    /\ SubSeq(fragment, i + 1, i + Len(path)) = path

\* C27: an entry of the hub carries a vocabulary link only when it is an
\* entry of the valueset bucket and the schema directory holds the file
\* <item-name>.jsonld, which is then the target of the link; an entry of the
\* logical_model bucket carries none, whatever the directory holds; and every
\* vocabulary link of the rendered hub is the link of such an entry.
C27_VocabularyLinkOnlyForValueSets ==
    /\ \A K \in {"valueset", "logical_model"} : \A i \in 1..Len(schemaDocs[K]) :
          LET s == schemaDocs[K][i]
              name == SchemaBaseName(s.schema_file)
          IN /\ s.jsonld_file # <<>> =>
                  /\ K = "valueset"
                  /\ OnDisk(name \o <<".jsonld">>)
                  /\ s.jsonld_file = <<"schemas/">> \o name \o <<".jsonld">>
             /\ K = "logical_model" => s.jsonld_file = <<>>
    /\ HubRendered =>
          \A i \in VocabularyLinks :
              \E k \in 1..Len(schemaDocs.valueset) :
                  /\ schemaDocs.valueset[k].jsonld_file # <<>>
                  /\ LinksVocabulary(i, schemaDocs.valueset[k].jsonld_file)

\* a hub has been rendered for a directory that holds an item of each kind
\* and the vocabulary file of each: the kind-A entry links to its vocabulary
\* file, the kind-B entry has no vocabulary link
C27_Witness ==
    /\ HubRendered
    /\ OnDisk(<<"c", ".jsonld">>) /\ OnDisk(<<"ValueSet-", "a", ".jsonld">>)
    /\ Len(schemaDocs.valueset) = 1 /\ Len(schemaDocs.logical_model) = 1
    /\ schemaDocs.valueset[1].jsonld_file = <<"schemas/", "ValueSet-", "a", ".jsonld">>
    /\ schemaDocs.logical_model[1].jsonld_file = <<>>
    /\ VocabularyLinks # {}
    /\ \A i \in VocabularyLinks : ~LinksVocabulary(i, <<"schemas/", "c", ".jsonld">>)

\* the status of this run in the object the run saved: the object is the
\* report itself, or the external report with the run's report under
\* dak_api_processing.postprocessing
PersistedStatus ==
    IF "dak_api_processing" \in DOMAIN qaResult
    THEN qaResult["dak_api_processing"].postprocessing.status
    ELSE qaResult["status"]

\* C28: the status of the report is running until finalize_report is called,
\* whatever add_* and merge calls are made before; and in a run that saved
\* its report, the status saved is failed exactly when the output directory
\* is absent, completed exactly when the injection into the landing page
\* returned true, and completed_with_errors exactly when it returned false.
C28_StatusFollowsHubInjection ==
    /\ qaPc # "saved" => qa.report.status = "running"
    /\ qaSavedAt \in {"primary", "backup"} =>
          /\ PersistedStatus = "failed" <=> ~outDir
          /\ PersistedStatus = "completed" <=> (injCalls > 0 /\ injRet = TRUE)
          /\ PersistedStatus = "completed_with_errors" <=> (injCalls > 0 /\ injRet = FALSE)
          /\ PersistedStatus = qa.report.status

\* a run with a schema file that could not be read saved the status
\* completed, merged into the external report, after an injection that
\* returned true
C28_Witness ==
    /\ pc = "done" /\ qaSavedAt = "primary"
    /\ "dak_api_processing" \in DOMAIN qaResult
    /\ \E i \in 1..Len(listing) : fileContent[i] = "bad"
    /\ Len(qa.report.details.successes) > 2
    /\ injCalls = 1 /\ injRet = TRUE
    /\ PersistedStatus = "completed"

\* files the run has synthesized: item specifications, catalog documents,
\* catalog-level specifications
Synthesized == <<wrappers, catalogs, catalogWrappers>>

\* C29: a run whose output directory has no dak-api.html stops at the check
\* of the landing page with no item specification, no catalog document and
\* no catalog-level specification written and no page patched; in a run
\* that finds the page, every write of a specification or a catalog comes
\* before the hub injection, and the hub injection before the write of the
\* QA report.
C29_CheckThenSynthesisThenHubThenReport ==
    /\ []((outDir /\ ~pageExists) =>
             /\ Synthesized = <<<<>>, <<>>, <<>>>>
             /\ injCalls = 0 /\ page = pagePre
             /\ pc = "done" => exitAt = "landing_page")
    /\ [][/\ Synthesized' # Synthesized =>
                (injCalls' = 0 /\ qaSavedAt' = "none" /\ pageExists)
          /\ injCalls' # injCalls => (qaSavedAt' = "none" /\ pageExists)
          /\ (qaSavedAt' # qaSavedAt /\ pageExists) => injCalls > 0]_vars

\* a run has written an item specification, a catalog document and a
\* catalog-level specification, then patched the landing page, then saved
\* its report
C29_Witness ==
    /\ pc = "done" /\ exitAt = "end"
    /\ wrappers # <<>> /\ catalogs # <<>> /\ catalogWrappers # <<>>
    /\ injCalls = 1 /\ page # pagePre
    /\ qaSavedAt = "primary"

---------------------------------------------------------------------------
(* SchemaDocumentationRenderer: injection into the page of an item *)

\* the files output/schemas may hold in a run that patches item pages
ItemFileNames ==
    { <<"ValueSet-", "a", ".schema.json">>,
      <<"b", ".schema.json">>,
      <<"StructureDefinition-", "m", ".schema.json">> }

\* the pages the publisher may have made for an item.  FORMAL_VIEWS and
\* EXPANSION stand for the headings the patterns of _find_injection_point
\* begin with, ITEM_PH for the placeholder comment of the item the page
\* belongs to, MAIN_CLOSE and BODY_CLOSE for </main> and </body>
ItemPages ==
    { <<"TEXT", "FORMAL_VIEWS", "TEXT", "DIV_CLOSE", "DIV_CLOSE", "TEXT",
        "MAIN_CLOSE", "BODY_CLOSE">>,
      <<"EXPANSION", "DIV_CLOSE", "DIV_CLOSE", "MAIN_CLOSE">>,
      <<"ITEM_PH", "FORMAL_VIEWS", "DIV_CLOSE", "DIV_CLOSE", "BODY_CLOSE">>,
      <<"FORMAL_VIEWS", "DIV_CLOSE", "DIV_CLOSE">>,
      <<"EXPANSION", "DIV_CLOSE", "TEXT", "DIV_CLOSE", "MAIN_CLOSE">>,
      <<"TEXT", "BODY_CLOSE">>,
      <<"TEXT">> }

\* m.end() of re.search(heading .*? </div>\s*</div>) with DOTALL: the match
\* starts at the first heading that two closing tags in a row follow, and
\* ends after the first such pair; 0 when nothing matches
BlockEnd(html_content, heading) ==
    LET pairs(h) == {j \in (h + 1)..(Len(html_content) - 1) :
                        /\ html_content[j] = "DIV_CLOSE"
                        /\ html_content[j + 1] = "DIV_CLOSE"}
        hs == {h \in 1..Len(html_content) :
                  html_content[h] = heading /\ pairs(h) # {}}
    IN IF hs = {} THEN 0
       ELSE LET h == CHOOSE x \in hs : \A y \in hs : x <= y
                j == CHOOSE x \in pairs(h) : \A y \in pairs(h) : x <= y
            IN j + 1

\* m.start() of the first match of a fallback pattern, as the number of
\* tokens before it; -1 when neither matches
FallbackPoint(html_content) ==
    LET at(tok) == {i \in 1..Len(html_content) : html_content[i] = tok}
        first(S) == CHOOSE x \in S : \A y \in S : x <= y
    IN IF at("MAIN_CLOSE") # {} THEN first(at("MAIN_CLOSE")) - 1
       ELSE IF at("BODY_CLOSE") # {} THEN first(at("BODY_CLOSE")) - 1
       ELSE -1

\* _find_injection_point: the number of tokens before the point, -1 for None
find_injection_point(html_content, schema_type) ==
    IF schema_type = "logical_model" /\ BlockEnd(html_content, "FORMAL_VIEWS") # 0
    THEN BlockEnd(html_content, "FORMAL_VIEWS")
    ELSE IF schema_type = "valueset" /\ BlockEnd(html_content, "EXPANSION") # 0
    THEN BlockEnd(html_content, "EXPANSION")
    ELSE FallbackPoint(html_content)

\* the schema type inject_into_html guesses from the name of a specification
GuessedType(spec_name) ==
    IF StartsWith(spec_name, "ValueSet-") THEN "valueset"
    ELSE IF StartsWith(spec_name, "StructureDefinition-")
            \/ StartsWith(spec_name, "LogicalModel-") THEN "logical_model"
    ELSE "unknown"

\* _generate_html_content for the specification of spec_name
GeneratedDoc(spec_name) == <<"API_DOC">> \o spec_name

\* inject_into_html for the specification file openapi_filename of
\* output/schemas: ret is the name of the page patched, <<>> for None; html
\* is the page afterwards
inject_into_html(openapi_filename, exists, html_content) ==
    LET spec_name == Without(openapi_filename, ".openapi.json")
        doc == GeneratedDoc(spec_name)
        injection_point == find_injection_point(html_content, GuessedType(spec_name))
    IN IF ~exists THEN [ret |-> <<>>, html |-> html_content]
       ELSE IF Contains(html_content, "ITEM_PH")
       THEN [ret |-> spec_name \o <<".html">>,
             html |-> StrReplace(html_content, "ITEM_PH", doc)]
       ELSE IF injection_point = -1
       THEN [ret |-> <<>>, html |-> html_content]
       ELSE [ret |-> spec_name \o <<".html">>,
             html |-> SubSeq(html_content, 1, injection_point) \o doc
                      \o SubSeq(html_content, injection_point + 1, Len(html_content))]

\* a scanned directory and the page of one of its items
ItemPageStart ==
    /\ dirExists = TRUE
    /\ listing \in Listings(ItemFileNames, MaxFiles)
    /\ schemas = NoSchemas
    /\ scanned = FALSE
    /\ pageExists \in BOOLEAN
    /\ page \in IF pageExists THEN ItemPages ELSE {<<>>}
    /\ pagePre = page
    /\ fragment = <<>>
    /\ injRet = "none"
    /\ injCalls = 0

\* main calls inject_into_html for the specification of an item of one of
\* the two item buckets; the page is the page of that item, and a later call
\* (of a later run on the same output) is for the same item
InjectIntoHtml ==
    /\ scanned
    /\ injCalls < MaxInject
    /\ \E K \in {"valueset", "logical_model"} : \E i \in 1..Len(schemas[K]) :
          LET openapi_filename == SchemaName(schemas[K][i]) \o <<".openapi.json">>
              r == inject_into_html(openapi_filename, pageExists, page)
          IN /\ injCalls > 0 => fragment = GeneratedDoc(SchemaName(schemas[K][i]))
             /\ page' = r.html
             /\ injRet' = (r.ret # <<>>)
             /\ fragment' = GeneratedDoc(SchemaName(schemas[K][i]))
    /\ pagePre' = page
    /\ injCalls' = injCalls + 1
    /\ UNCHANGED pageExists

\* the kind the classifier gave the item whose page was patched
PatchedKinds ==
    {K \in {"valueset", "logical_model"} :
        \E i \in 1..Len(schemas[K]) :
            fragment = GeneratedDoc(SchemaName(schemas[K][i]))}

\* the page is the page before with the fragment put in after e tokens
InsertedAfter(e) ==
    page = SubSeq(pagePre, 1, e) \o fragment \o SubSeq(pagePre, e + 1, Len(pagePre))

\* C18 as stated: when the page of an item the classifier put in the
\* logical_model bucket has no placeholder comment of the item but has a
\* Formal Views heading block, the fragment is inserted immediately after
\* that block; for an item of the valueset bucket with an Expansion heading
\* block, immediately after that block.
C18_AnchorFollowsClassifier ==
    (injCalls = 1 /\ pageExists /\ ~Contains(pagePre, "ITEM_PH")) =>
        /\ ("logical_model" \in PatchedKinds /\ BlockEnd(pagePre, "FORMAL_VIEWS") # 0)
              => InsertedAfter(BlockEnd(pagePre, "FORMAL_VIEWS"))
        /\ ("valueset" \in PatchedKinds /\ BlockEnd(pagePre, "EXPANSION") # 0)
              => InsertedAfter(BlockEnd(pagePre, "EXPANSION"))

\* the number of tokens before the first closing main or closing body tag
\* of the document, -1 when it has neither
FirstClosingTag(html_content) ==
    LET at == {i \in 1..Len(html_content) :
                  html_content[i] \in {"MAIN_CLOSE", "BODY_CLOSE"}}
    IN IF at = {} THEN -1 ELSE (CHOOSE x \in at : \A y \in at : x <= y) - 1

\* C24 as stated: the anchor of a per-item injection is resolved in a fixed
\* order: the placeholder comment of the item is replaced directly;
\* otherwise the fragment goes right after the heading block of the item's
\* kind; otherwise right before the first closing main or closing body tag
\* of the document; and when the page has none of these it is left unchanged
\* and the call fails.
C24_AnchorResolutionOrder ==
    (injCalls = 1 /\ pageExists /\ PatchedKinds # {}) =>
        LET heading == IF "logical_model" \in PatchedKinds
                       THEN "FORMAL_VIEWS" ELSE "EXPANSION"
        IN IF Contains(pagePre, "ITEM_PH")
           THEN injRet = TRUE /\ page = StrReplace(pagePre, "ITEM_PH", fragment)
           ELSE IF BlockEnd(pagePre, heading) # 0
           THEN injRet = TRUE /\ InsertedAfter(BlockEnd(pagePre, heading))
           ELSE IF FirstClosingTag(pagePre) # -1
           THEN injRet = TRUE /\ InsertedAfter(FirstClosingTag(pagePre))
           ELSE injRet = FALSE /\ page = pagePre

\* the number of places of text where the fragment doc begins
Occurrences(doc, text) ==
    Cardinality({i \in 1..(Len(text) - Len(doc) + 1) :
                    SubSeq(text, i, i + Len(doc) - 1) = doc})

\* the page held one kind of hub marker only: the placeholder element and no
\* legacy marker, or the legacy marker and no opening tag of the placeholder
OneKindOfMarker(html) ==
    \/ HasPlaceholderElement(html) /\ ~HasLegacyMarker(html)
    \/ HasLegacyMarker(html) /\ ~Contains(html, "PH_OPEN")

---------------------------------------------------------------------------
(* Specifications *)

\* injection calls on one landing page
InjInit == InjStart /\ ClsIdle /\ QaIdle /\ MainIdle
InjNext == Inject /\ UNCHANGED <<clsVars, qaVars, mainVars>>
SpecInject == InjInit /\ [][InjNext]_vars

\* one scan of one directory
ClassifyInit == ClsInit /\ InjIdle /\ QaIdle /\ MainIdle
ClassifyNext == FindSchemaFiles /\ UNCHANGED <<injVars, qaVars, mainVars>>
SpecClassify == ClassifyInit /\ [][ClassifyNext]_vars

\* runs of the QA reporter over one qa.json
QaInit == QaStart /\ InjIdle /\ ClsIdle /\ MainIdle
QaNext ==
    /\ \/ QaAddSuccess
       \/ QaAddWarning
       \/ QaAddError
       \/ QaAddFileProcessed
       \/ QaAddFileExpected
       \/ QaMergePreprocessing
       \/ QaLoad
       \/ QaFinalize
       \/ QaSave
       \/ QaNewRun
    /\ UNCHANGED <<injVars, clsVars, mainVars>>
SpecQA == QaInit /\ [][QaNext]_vars

\* a run of main
Init == MainInit
Next ==
    \/ MainStart
    \/ MainDetect
    \/ MainValueSets
    \/ MainLogicalModels
    \/ MainEnumerations
    \/ MainOpenApi
    \/ MainHub
    \/ MainFinalize
    \/ MainExit
Spec == Init /\ [][Next]_vars

\* the patching of the page of one item of a scanned directory
ItemPageInit == ItemPageStart /\ QaIdle /\ MainIdle
ItemPageNext ==
    \/ FindSchemaFiles /\ UNCHANGED <<injVars, qaVars, mainVars>>
    \/ InjectIntoHtml /\ UNCHANGED <<clsVars, qaVars, mainVars>>
SpecItemPage == ItemPageInit /\ [][ItemPageNext]_vars

\* two runs of main in a row on one output tree that has a landing page
\* with the placeholder element and no qa.json
RerunInit ==
    /\ MainInit
    /\ outDir
    /\ pageReadable
    /\ page = <<"PH_OPEN", "DIV_CLOSE">>
    /\ qaFile = AbsentFile
RerunNext == Next \/ MainRerun
SpecRerun == RerunInit /\ [][RerunNext]_vars

\* a run of main on an output tree whose schema directory may hold
\* vocabulary files beside the schema files
VocabularyInit ==
    /\ MainInitOver(VocabularyListings)
    /\ outDir
    /\ pageReadable
    /\ page = <<"PH_OPEN", "DIV_CLOSE">>
    /\ qaFile = AbsentFile
SpecVocabulary == VocabularyInit /\ [][Next]_vars

\* repeated patching of one file that is not rendered again in between:
\* the landing page, or the page of an item of a scanned directory
RepeatInit == InjInit \/ ItemPageInit
RepeatNext ==
    \/ ~dirExists /\ InjNext
    \/ dirExists /\ ItemPageNext
SpecRepeat == RepeatInit /\ [][RepeatNext]_vars

=============================================================================
